---- MODULE Spec2Model ----
(***************************************************************************)
(* The periodic maintenance pass of the chain database                     *)
(* (libraries/chain/db_maint.cpp): database::perform_chain_maintenance and *)
(* the steps it runs, as a state machine over the object store `db` and    *)
(* the scratch buffers of the database object.                             *)
(*                                                                         *)
(* Amounts are int64 (share_type) or uint64 in the code; every amount of   *)
(* the stores stays below 2^30.  The two places where an unsigned value    *)
(* wraps (a histogram bucket above the total stake, a next maintenance     *)
(* time that is not after the head block) yield AboveSupply.  Times are    *)
(* seconds since the epoch.                                                *)
(***************************************************************************)
EXTENDS Integers, Sequences, FiniteSets, TLC

(* ------------------------------------------------------------------ *)
(* Bounds of the model                                                 *)
(* ------------------------------------------------------------------ *)
MaxPasses == 2          \* blocks applied in one behaviour
MaxWitnesses == 3       \* witness objects in the general election stores
MaxFbaFees == 12        \* the small amounts of accumulated fees that are split

(* ------------------------------------------------------------------ *)
(* Program constants (config.hpp / hardfork.hpp values, in seconds)     *)
(* ------------------------------------------------------------------ *)
GRAPHENE_1_PERCENT == 100
GRAPHENE_100_PERCENT == 100 * GRAPHENE_1_PERCENT
GRAPHENE_CORE_ASSET_CYCLE_RATE == 17
GRAPHENE_CORE_ASSET_CYCLE_RATE_BITS == 32
GRAPHENE_PROXY_TO_SELF_ACCOUNT == 0
SecondsPerDay == 60 * 60 * 24
\* hardfork.hpp thresholds, placed on the model's time line
HARDFORK_533_TIME == 14000
HARDFORK_607_TIME == 9000
HARDFORK_616_MAINTENANCE_CHANGE_TIME == 12600
HARDFORK_613_TIME == 11000
HARDFORK_616_TIME == 12000
HARDFORK_617_TIME == 190000
HARDFORK_618_TIME == 195000
HARDFORK_620_TIME == 200000
HARDFORK_622_TIME == 205000
\* the fba_accumulator ids of fba_accumulator_id.hpp
fba_accumulator_id_transfer_to_blind == 0
fba_accumulator_id_blind_transfer == 1
fba_accumulator_id_transfer_from_blind == 2
FbaIds == {fba_accumulator_id_transfer_to_blind, fba_accumulator_id_blind_transfer,
           fba_accumulator_id_transfer_from_blind}

(* ------------------------------------------------------------------ *)
(* Arithmetic helpers                                                  *)
(* ------------------------------------------------------------------ *)
Min(a, b) == IF a < b THEN a ELSE b
Max(a, b) == IF a > b THEN a ELSE b

RECURSIVE Pow2(_)
Pow2(n) == IF n = 0 THEN 1 ELSE 2 * Pow2(n - 1)

\* boost::multiprecision::detail::find_msb for a non-zero argument
RECURSIVE find_msb(_)
find_msb(x) == IF x <= 1 THEN 0 ELSE 1 + find_msb(x \div 2)

\* x >> n for 0 <= x < 2^31
ShiftRight(x, n) == IF n >= 31 THEN 0 ELSE x \div Pow2(n)

\* An amount beyond every amount of the core asset the stores hold.  It
\* stands for the 64-bit values of 2^61 and more that a wrapped unsigned
\* subtraction or conversion yields.
AboveSupply == Pow2(30)

RECURSIVE SumSet(_, _)
SumSet(S, f) == IF S = {} THEN 0
                ELSE LET x == CHOOSE y \in S : TRUE
                     IN f[x] + SumSet(S \ {x}, f)

RECURSIVE SumSeq(_)
SumSeq(s) == IF s = <<>> THEN 0 ELSE Head(s) + SumSeq(Tail(s))

\* std::vector<uint64_t>: a sequence; element i of the vector is s[i+1]
At(v, i) == v[i + 1]
\* vector::resize(n): new elements are value-initialised, old ones are kept
Resize(v, n) == [i \in 1..n |-> IF i <= Len(v) THEN v[i] ELSE 0]
\* v[i] += x
AddAt(v, i, x) == [v EXCEPT ![i + 1] = @ + x]

(* ------------------------------------------------------------------ *)
(* Vote tally: vote_tally_helper                                       *)
(* ------------------------------------------------------------------ *)
\* account_object::is_member(now) of the stake account
is_member(a) == a.is_member

OpinionAccount_the_stake_account(d, id) == d.accounts[id]

\* The account specifying the opinions of a stake account
OpinionAccount(d, id) ==
    IF d.accounts[id].options.voting_account = GRAPHENE_PROXY_TO_SELF_ACCOUNT
    THEN d.accounts[id]
    ELSE d.accounts[d.accounts[id].options.voting_account]

\* stats.total_core_in_orders + cashback vesting balance + core balance
VotingStake(d, id) ==
    d.accounts[id].total_core_in_orders + d.accounts[id].cashback_vb + d.balance[id]

TallyVotes_clamping_the_offset(tally, votes, stake) ==
    [i \in 1..Len(tally) |->
        IF (i - 1) \in votes \/ (i = Len(tally) /\ \E v \in votes : v >= Len(tally))
        THEN tally[i] + stake ELSE tally[i]]

\* for( vote_id_type id : opinion_account.options.votes ) ...
TallyVotes(tally, votes, stake) ==
    [i \in 1..Len(tally) |-> IF (i - 1) \in votes THEN tally[i] + stake ELSE tally[i]]

\* The count histogram after one account: num is num_witness or num_committee,
\* maxcount the matching maximum_*_count parameter
TallyCount(hist, num, maxcount, stake) ==
    IF num <= maxcount
    THEN AddAt(hist, Min(num \div 2, Len(hist) - 1), stake)
    ELSE hist

\* vote_tally_helper::operator(): the buffers after stake account id,
\* as <<tally, witness histogram, committee histogram, total stake>>
TallyAccount(d, id, bufs) ==
    IF d.gpo.parameters.count_non_member_votes \/ is_member(d.accounts[id])
    THEN LET op == OpinionAccount(d, id).options
             stake == VotingStake(d, id)
         IN <<TallyVotes(bufs[1], op.votes, stake),
              TallyCount(bufs[2], op.num_witness,
                         d.gpo.parameters.maximum_witness_count, stake),
              TallyCount(bufs[3], op.num_committee,
                         d.gpo.parameters.maximum_committee_count, stake),
              bufs[4] + stake>>
    ELSE bufs

(* ------------------------------------------------------------------ *)
(* Elections: sort_votable_objects, update_active_witnesses,           *)
(* update_active_committee_members                                     *)
(* ------------------------------------------------------------------ *)
VotableBefore_fewest_votes_first(tally, a, b) ==
    IF At(tally, a.vote_id) # At(tally, b.vote_id)
    THEN At(tally, a.vote_id) < At(tally, b.vote_id)
    ELSE a.vote_id < b.vote_id

VotableBefore_higher_vote_id_first(tally, a, b) ==
    IF At(tally, a.vote_id) # At(tally, b.vote_id)
    THEN At(tally, a.vote_id) > At(tally, b.vote_id)
    ELSE a.vote_id > b.vote_id

\* The comparison of sort_votable_objects: a is ranked before b
VotableBefore(tally, a, b) ==
    IF At(tally, a.vote_id) # At(tally, b.vote_id)
    THEN At(tally, a.vote_id) > At(tally, b.vote_id)
    ELSE a.vote_id < b.vote_id

\* std::partial_sort + resize: the ids of the first `count` objects in the
\* order of VotableBefore, as a sequence
RECURSIVE SortedPrefix(_, _, _, _)
SortedPrefix(objs, ids, tally, count) ==
    IF count = 0 \/ ids = {} THEN <<>>
    ELSE LET best == CHOOSE a \in ids :
                       \A b \in ids \ {a} : VotableBefore(tally, objs[a], objs[b])
         IN <<best>> \o SortedPrefix(objs, ids \ {best}, tally, count - 1)

sort_votable_objects(objs, tally, count) ==
    SortedPrefix(objs, DOMAIN objs, tally, Min(count, Cardinality(DOMAIN objs)))

\* The walk over a count histogram that derives the number of members
RECURSIVE CountWalk(_, _, _, _)
CountWalk(hist, stake_target, count, stake_tally) ==
    IF count < Len(hist) - 1 /\ stake_tally <= stake_target
    THEN CountWalk(hist, stake_target, count + 1, stake_tally + At(hist, count + 1))
    ELSE count

DesiredCount_walking_any_target(hist, stake_target) ==
    CountWalk(hist, stake_target, 0, 0)

DesiredCount(hist, stake_target) ==
    IF stake_target > 0 THEN CountWalk(hist, stake_target, 0, 0) ELSE 0

\* (_total_voting_stake - _witness_count_histogram_buffer[0]) / 2 in
\* uint64_t: a bucket above the total wraps the difference to 2^63 and more
StakeTarget(total, bucket0) ==
    IF total >= bucket0 THEN (total - bucket0) \div 2 ELSE AboveSupply

SeqRange(s) == {s[i] : i \in 1..Len(s)}

\* weights.emplace(account, votes) over the elected members in order: the
\* first member of an account sets the account's weight.  accts and votes
\* are the members' accounts and tallied votes, in elected order.
LegacyWeights(accts, votes) ==
    [a \in SeqRange(accts) |->
        LET first == CHOOSE i \in 1..Len(accts) :
                       /\ accts[i] = a
                       /\ \A j \in 1..(i - 1) : accts[j] # a
        IN votes[first]]

LegacyAuthority_without_the_floor_of_one(accts, votes, msb0) ==
    LET weights == LegacyWeights(accts, votes)
        total_votes == SumSeq(votes)
        msb == IF total_votes = 0 THEN msb0 ELSE find_msb(total_votes)
        bits_to_drop == Max(msb - 15, 0)
        emitted == [a \in DOMAIN weights |->
                      ShiftRight(weights[a], bits_to_drop) % 65536]
    IN [weight_threshold |-> (SumSet(DOMAIN emitted, emitted) \div 2) + 1,
        account_auths |-> emitted]

\* The active authority of the pre-HARDFORK_533 branch.  msb0 is the value
\* find_msb yields for total_votes = 0, where it is undefined.
LegacyAuthority(accts, votes, msb0) ==
    LET weights == LegacyWeights(accts, votes)
        total_votes == SumSeq(votes)
        msb == IF total_votes = 0 THEN msb0 ELSE find_msb(total_votes)
        bits_to_drop == Max(msb - 15, 0)
        emitted == [a \in DOMAIN weights |->
                      Max(ShiftRight(weights[a], bits_to_drop), 1) % 65536]
    IN [weight_threshold |-> (SumSet(DOMAIN emitted, emitted) \div 2) + 1,
        account_auths |-> emitted]

\* vote_counter::add for every elected member, then vote_counter::finish;
\* old is the authority finish() leaves alone when nothing was added
VoteCounterAuthority(accts, votes, old) ==
    LET voted == {i \in 1..Len(accts) : votes[i] # 0}
        bitshift == IF voted = {} THEN 0
                    ELSE LET f == CHOOSE i \in voted : \A j \in voted : i <= j
                         IN Max(find_msb(votes[f]) - 15, 0)
        scaled == [a \in {accts[i] : i \in voted} |->
                     LET i == CHOOSE i \in voted : accts[i] = a
                     IN Max(ShiftRight(votes[i], bitshift), 1)]
        total_votes == SumSet(DOMAIN scaled, scaled)
    IN IF total_votes = 0 THEN old
       ELSE [weight_threshold |-> (total_votes \div 2) + 1, account_auths |-> scaled]

head_block_time(d) == d.dpo.time

\* A legal outcome of find_msb(0): __builtin_clzll(0) is undefined
MsbOfZero == {-1, 0, 17, 63}

\* The authority update_active_witnesses and update_active_committee_members
\* write for the elected members, given in elected order
ActiveAuthority(d, accts, votes, old, msb0) ==
    IF head_block_time(d) < HARDFORK_533_TIME
    THEN LegacyAuthority(accts, votes, msb0)
    ELSE VoteCounterAuthority(accts, votes, old)

update_active_witnesses(d, tally, whist, total, msb0) ==
    LET stake_target == StakeTarget(total, At(whist, 0))
        witness_count == DesiredCount(whist, stake_target)
    IN CHOOSE result \in
         { [d EXCEPT
              !.witnesses = [w \in DOMAIN d.witnesses |->
                               [d.witnesses[w] EXCEPT
                                   !.total_votes = At(tally, d.witnesses[w].vote_id)]],
              !.witness_active =
                  CHOOSE active \in
                    { ActiveAuthority(d, accts, votes, d.witness_active, msb0) :
                        accts \in {[i \in 1..Len(wits) |->
                                      d.witnesses[wits[i]].witness_account]},
                        votes \in {[i \in 1..Len(wits) |->
                                      At(tally, d.witnesses[wits[i]].vote_id)]} } : TRUE,
              !.gpo.active_witnesses = SeqRange(wits)] :
             wits \in {sort_votable_objects(d.witnesses, tally,
                           Max(witness_count * 2 + 1, d.cpo.min_witness_count))} } : TRUE

update_active_committee_members_of_the_committee_bucket(d, tally, whist, chist, total, msb0) ==
    LET stake_target == StakeTarget(total, At(chist, 0))
        committee_member_count == DesiredCount(chist, stake_target)
        committee_members == sort_votable_objects(d.committee, tally,
                    Max(committee_member_count * 2 + 1, d.cpo.min_committee_member_count))
        elected == SeqRange(committee_members)
        accts == [i \in 1..Len(committee_members) |->
                    d.committee[committee_members[i]].committee_member_account]
        votes == [i \in 1..Len(committee_members) |->
                    At(tally, d.committee[committee_members[i]].vote_id)]
        active == IF head_block_time(d) < HARDFORK_533_TIME
                  THEN LegacyAuthority(accts, votes, msb0)
                  ELSE VoteCounterAuthority(accts, votes, d.committee_active)
    IN [d EXCEPT
          !.committee = [c \in DOMAIN d.committee |->
                           IF c \in elected
                           THEN [d.committee[c] EXCEPT
                                    !.total_votes = At(tally, d.committee[c].vote_id)]
                           ELSE d.committee[c]],
          !.committee_active = IF committee_members # <<>> THEN active ELSE @,
          !.relaxed_active = IF committee_members # <<>> THEN active ELSE @,
          !.gpo.active_committee_members = elected]

update_active_committee_members_leaving_the_relaxed_committee(d, tally, whist, chist, total, msb0) ==
    LET stake_target == StakeTarget(total, At(whist, 0))
        committee_member_count == DesiredCount(chist, stake_target)
        committee_members == sort_votable_objects(d.committee, tally,
                    Max(committee_member_count * 2 + 1, d.cpo.min_committee_member_count))
        elected == SeqRange(committee_members)
        accts == [i \in 1..Len(committee_members) |->
                    d.committee[committee_members[i]].committee_member_account]
        votes == [i \in 1..Len(committee_members) |->
                    At(tally, d.committee[committee_members[i]].vote_id)]
        active == IF head_block_time(d) < HARDFORK_533_TIME
                  THEN LegacyAuthority(accts, votes, msb0)
                  ELSE VoteCounterAuthority(accts, votes, d.committee_active)
    IN [d EXCEPT
          !.committee = [c \in DOMAIN d.committee |->
                           IF c \in elected
                           THEN [d.committee[c] EXCEPT
                                    !.total_votes = At(tally, d.committee[c].vote_id)]
                           ELSE d.committee[c]],
          !.committee_active = IF committee_members # <<>> THEN active ELSE @,
          !.gpo.active_committee_members = elected]

update_active_committee_members(d, tally, whist, chist, total, msb0) ==
    LET stake_target == StakeTarget(total, At(whist, 0))
        committee_member_count == DesiredCount(chist, stake_target)
    IN CHOOSE result \in
         { CHOOSE written \in
             { [d EXCEPT
                  !.committee = [c \in DOMAIN d.committee |->
                                   IF c \in SeqRange(committee_members)
                                   THEN [d.committee[c] EXCEPT
                                            !.total_votes =
                                                At(tally, d.committee[c].vote_id)]
                                   ELSE d.committee[c]],
                  !.committee_active = IF committee_members # <<>> THEN active ELSE @,
                  !.relaxed_active = IF committee_members # <<>> THEN active ELSE @,
                  !.gpo.active_committee_members = SeqRange(committee_members)] :
                 active \in
                   { ActiveAuthority(d, accts, votes, d.committee_active, msb0) :
                       accts \in {[i \in 1..Len(committee_members) |->
                                     d.committee[committee_members[i]]
                                         .committee_member_account]},
                       votes \in {[i \in 1..Len(committee_members) |->
                                     At(tally, d.committee[committee_members[i]]
                                                   .vote_id)]} } } : TRUE :
             committee_members \in
               {sort_votable_objects(d.committee, tally,
                    Max(committee_member_count * 2 + 1,
                        d.cpo.min_committee_member_count))} } : TRUE

(* ------------------------------------------------------------------ *)
(* Workers: update_worker_votes, pay_workers                           *)
(* ------------------------------------------------------------------ *)
\* worker_object::approving_stake and worker_object::is_active
approving_stake(w) == w.total_votes_for - w.total_votes_against
is_active(w, now) == now >= w.work_begin_date /\ now <= w.work_end_date

\* worker_type's pay_worker of the three variants
pay_worker(d, w, pay) ==
    CASE d.workers[w].worker = "refund" ->
            [d EXCEPT !.core_dd.current_supply = @ - pay]
      [] d.workers[w].worker = "burn" ->
            [d EXCEPT !.core_dd.current_supply = @ - pay]
      [] d.workers[w].worker = "vesting" ->
            [d EXCEPT !.vesting[w] = @ + pay]

WorkerBefore_higher_id_first(d, a, b) ==
    IF approving_stake(d.workers[a]) # approving_stake(d.workers[b])
    THEN approving_stake(d.workers[a]) > approving_stake(d.workers[b])
    ELSE a > b

\* a is sorted before b: more approving stake first, then the lower id
WorkerBefore(d, a, b) ==
    IF approving_stake(d.workers[a]) # approving_stake(d.workers[b])
    THEN approving_stake(d.workers[a]) > approving_stake(d.workers[b])
    ELSE a < b

RECURSIVE SortWorkers(_, _)
SortWorkers(d, ids) ==
    IF ids = {} THEN <<>>
    ELSE LET first == CHOOSE a \in ids : \A b \in ids \ {a} : WorkerBefore(d, a, b)
         IN <<first>> \o SortWorkers(d, ids \ {first})

active_workers(d) ==
    SortWorkers(d, {w \in DOMAIN d.workers :
                      /\ is_active(d.workers[w], head_block_time(d))
                      /\ approving_stake(d.workers[w]) > 0})

requested_pay_of_a_whole_day(d, w) == d.workers[w].daily_pay

\* The pay a worker requests for the interval since last_budget_time
requested_pay(d, w) ==
    IF head_block_time(d) - d.dpo.last_budget_time # SecondsPerDay
    THEN (d.workers[w].daily_pay * (head_block_time(d) - d.dpo.last_budget_time))
            \div SecondsPerDay
    ELSE d.workers[w].daily_pay

\* The visit of worker_pay_visitor: pay_worker on the worker, noted in
\* d.payments, the calls of this pay_workers in order
visit_worker(d, w, pay) ==
    [pay_worker(d, w, pay) EXCEPT !.payments = Append(@, [worker |-> w, pay |-> pay])]

\* The loop of pay_workers from position i: <<store, budget left>>
RECURSIVE PayLoop(_, _, _, _)
PayLoop(d, order, i, budget) ==
    IF i <= Len(order) /\ budget > 0
    THEN LET actual_pay == Min(budget, requested_pay(d, order[i]))
         IN PayLoop(visit_worker(d, order[i], actual_pay), order, i + 1, budget - actual_pay)
    ELSE <<d, budget>>

pay_workers(d, budget) ==
    PayLoop([d EXCEPT !.payments = <<>>], active_workers(d), 1, budget)

update_worker_votes_with_negative_votes(d, tally, allow_negative_votes) ==
    [d EXCEPT !.workers =
        [w \in DOMAIN d.workers |->
            [d.workers[w] EXCEPT
                !.total_votes_for = At(tally, d.workers[w].vote_for),
                !.total_votes_against = At(tally, d.workers[w].vote_against)]]]

update_worker_votes(d, tally, allow_negative_votes) ==
    [d EXCEPT !.workers =
        [w \in DOMAIN d.workers |->
            [d.workers[w] EXCEPT
                !.total_votes_for = At(tally, d.workers[w].vote_for),
                !.total_votes_against =
                    IF allow_negative_votes THEN At(tally, d.workers[w].vote_against)
                    ELSE 0]]]

(* ------------------------------------------------------------------ *)
(* Budget: initialize_budget_record, process_budget                    *)
(* ------------------------------------------------------------------ *)
\* asset_object::reserved: the part of max_supply that is not issued
reserved(d) == d.max_supply - d.core_dd.current_supply

\* ceil(r * m / 2^32) for 0 <= r, m < 2^29, in limbs of 15 bits so that no
\* intermediate exceeds 2^31: the 128-bit product, add and shift of the code
MulShiftCeil32(r, m) ==
    LET B == 32768
        rh == r \div B   rl == r % B
        mh == m \div B   ml == m % B
        mid == rh * ml + rl * mh + ((rl * ml) \div B)
        q == rh * mh + (mid \div B)              \* x \div 2^30
        low == (mid % B) # 0 \/ ((rl * ml) % B) # 0  \* x % 2^30 # 0
    IN (q \div 4) + (IF q % 4 # 0 \/ low THEN 1 ELSE 0)

initialize_budget_record_rounding_down(d, now) ==
    LET dt == now - d.dpo.last_budget_time
        reserve == reserved(d) + d.core_dd.accumulated_fees + d.dpo.witness_budget
        rounded_up == MulShiftCeil32(reserve, dt * GRAPHENE_CORE_ASSET_CYCLE_RATE)
        budget_u128 == IF reserve <= 1000 THEN 0 ELSE rounded_up
    IN [from_initial_reserve |-> reserved(d),
        from_accumulated_fees |-> d.core_dd.accumulated_fees,
        from_unused_witness_budget |-> d.dpo.witness_budget,
        time_since_last_budget |->
            IF d.dpo.last_budget_time = 0 \/ now <= d.dpo.last_budget_time THEN 0 ELSE dt,
        total_budget |->
            IF d.dpo.last_budget_time = 0 \/ now <= d.dpo.last_budget_time THEN 0
            ELSE IF budget_u128 < reserve THEN budget_u128 ELSE reserve]

initialize_budget_record_without_the_first_pass_return(d, now) ==
    LET dt == now - d.dpo.last_budget_time
        reserve == reserved(d) + d.core_dd.accumulated_fees + d.dpo.witness_budget
        budget_u128 == MulShiftCeil32(reserve, dt * GRAPHENE_CORE_ASSET_CYCLE_RATE)
    IN [from_initial_reserve |-> reserved(d),
        from_accumulated_fees |-> d.core_dd.accumulated_fees,
        from_unused_witness_budget |-> d.dpo.witness_budget,
        time_since_last_budget |-> dt,
        total_budget |-> IF budget_u128 < reserve THEN budget_u128 ELSE reserve]

initialize_budget_record(d, now) ==
    LET base == [from_initial_reserve |-> reserved(d),
                 from_accumulated_fees |-> d.core_dd.accumulated_fees,
                 from_unused_witness_budget |-> d.dpo.witness_budget,
                 time_since_last_budget |-> 0,
                 total_budget |-> 0]
        dt == now - d.dpo.last_budget_time
        reserve == reserved(d) + d.core_dd.accumulated_fees + d.dpo.witness_budget
        budget_u128 == MulShiftCeil32(reserve, dt * GRAPHENE_CORE_ASSET_CYCLE_RATE)
    IN IF d.dpo.last_budget_time = 0 \/ now <= d.dpo.last_budget_time
       THEN base
       ELSE [base EXCEPT !.time_since_last_budget = dt,
                         !.total_budget = IF budget_u128 < reserve
                                          THEN budget_u128 ELSE reserve]

\* witness_pay_per_block * blocks_to_maint.  With time_to_maint < 0,
\* uint64_t(time_to_maint) is 2^64 + time_to_maint and blocks_to_maint is
\* between 2^60 and 2^62 for a block_interval of 4 to 16, so a pay per
\* block of 1 or 2 gives a product that does not wrap.
RequestedWitnessBudget(pay_per_block, time_to_maint, block_interval) ==
    IF time_to_maint >= 0
    THEN pay_per_block * ((time_to_maint + block_interval - 1) \div block_interval)
    ELSE IF pay_per_block = 0 THEN 0 ELSE AboveSupply

WorkerBudgetU128_of_an_hour(budget_per_day, time_to_maint) ==
    IF time_to_maint >= 0
    THEN (budget_per_day * time_to_maint) \div 3600
    ELSE IF budget_per_day = 0 THEN 0 ELSE AboveSupply

\* worker_budget_per_day * uint64_t(time_to_maint) / (60*60*24) in 128 bits
WorkerBudgetU128(budget_per_day, time_to_maint) ==
    IF time_to_maint >= 0
    THEN (budget_per_day * time_to_maint) \div SecondsPerDay
    ELSE IF budget_per_day = 0 THEN 0 ELSE AboveSupply

\* process_budget up to the payment of the workers:
\* <<the store pay_workers leaves, the budget record>>
budget_allocation(d) ==
    LET now == head_block_time(d)
        time_to_maint == d.dpo.next_maintenance_time - now
        p == d.gpo.parameters
        rec0 == initialize_budget_record(d, now)
        requested_witness_budget ==
            RequestedWitnessBudget(p.witness_pay_per_block, time_to_maint, p.block_interval)
        witness_budget == Min(requested_witness_budget, rec0.total_budget)
        worker_budget_u128 == WorkerBudgetU128(p.worker_budget_per_day, time_to_maint)
        worker_budget == IF worker_budget_u128 >= rec0.total_budget - witness_budget
                         THEN rec0.total_budget - witness_budget
                         ELSE worker_budget_u128
        paid == pay_workers(d, worker_budget)
        leftover_worker_funds == paid[2]
    IN <<paid[1],
         [from_initial_reserve |-> rec0.from_initial_reserve,
          from_accumulated_fees |-> rec0.from_accumulated_fees,
          from_unused_witness_budget |-> rec0.from_unused_witness_budget,
          time_since_last_budget |-> rec0.time_since_last_budget,
          total_budget |-> rec0.total_budget,
          requested_witness_budget |-> requested_witness_budget,
          witness_budget |-> witness_budget,
          worker_budget |-> worker_budget,
          leftover_worker_funds |-> leftover_worker_funds,
          supply_delta |-> witness_budget + worker_budget - leftover_worker_funds
                             - rec0.from_accumulated_fees
                             - rec0.from_unused_witness_budget]>>

commit_budget_adding_witness_budget(d, rec, now) ==
    [d EXCEPT
       !.core_dd.current_supply = @ + rec.supply_delta,
       !.core_dd.accumulated_fees = 0,
       !.dpo.witness_budget = @ + rec.witness_budget,
       !.dpo.last_budget_time = now,
       !.budget_records = Append(@, [time |-> now, record |-> rec])]

\* The three writes that end process_budget: the core asset's dynamic data,
\* the dynamic global properties and the budget record object
commit_budget(d, rec, now) ==
    [d EXCEPT
       !.core_dd.current_supply = @ + rec.supply_delta,
       !.core_dd.accumulated_fees = 0,
       !.dpo.witness_budget = rec.witness_budget,
       !.dpo.last_budget_time = now,
       !.budget_records = Append(@, [time |-> now, record |-> rec])]

process_budget(d) ==
    LET alloc == budget_allocation(d)
    IN commit_budget(alloc[1], alloc[2], head_block_time(d))

(* ------------------------------------------------------------------ *)
(* Fee backed assets: split_fba_balance, distribute_fba_balances       *)
(* ------------------------------------------------------------------ *)
\* database::adjust_balance of the core asset
adjust_balance(d, account, delta) == [d EXCEPT !.balance[account] = @ + delta]

push_applied_operation(d, vop) == [d EXCEPT !.applied_operations = Append(@, vop)]

FbaPercentagesValid_at_least_the_whole(network_pct, buyback_pct, issuer_pct) ==
    network_pct + buyback_pct + issuer_pct >= GRAPHENE_100_PERCENT

\* The FC_ASSERT at the head of split_fba_balance
FbaPercentagesValid(network_pct, buyback_pct, issuer_pct) ==
    network_pct + buyback_pct + issuer_pct = GRAPHENE_100_PERCENT

split_fba_balance_issuer_paid_buyback_share(d, fba_id, network_pct, buyback_pct, issuer_pct) ==
    LET fba == d.fba[fba_id]
        buyback_amount == (fba.accumulated_fba_fees * buyback_pct) \div GRAPHENE_100_PERCENT
        issuer_amount == (fba.accumulated_fba_fees * buyback_pct) \div GRAPHENE_100_PERCENT
        network_amount == fba.accumulated_fba_fees - (buyback_amount + issuer_amount)
    IN IF fba.accumulated_fba_fees = 0 THEN d
       ELSE [d EXCEPT !.core_dd.current_supply = @ - network_amount,
                      !.balance[fba.buyback_account] = @ + buyback_amount,
                      !.balance[fba.issuer] = @ + issuer_amount,
                      !.fba[fba_id].accumulated_fba_fees = 0]

split_fba_balance_keeping_network_share(d, fba_id, network_pct, buyback_pct, issuer_pct) ==
    LET fba == d.fba[fba_id]
        buyback_amount == (fba.accumulated_fba_fees * buyback_pct) \div GRAPHENE_100_PERCENT
        issuer_amount == (fba.accumulated_fba_fees * issuer_pct) \div GRAPHENE_100_PERCENT
    IN [d EXCEPT !.balance[fba.buyback_account] = @ + buyback_amount,
                 !.balance[fba.issuer] = @ + issuer_amount,
                 !.fba[fba_id].accumulated_fba_fees = 0]

\* split_fba_balance once its FC_ASSERT has passed
split_fba_balance(d, fba_id, network_pct, buyback_pct, issuer_pct) ==
    LET fba == d.fba[fba_id]
        buyback_amount == (fba.accumulated_fba_fees * buyback_pct) \div GRAPHENE_100_PERCENT
        issuer_amount == (fba.accumulated_fba_fees * issuer_pct) \div GRAPHENE_100_PERCENT
        network_amount == fba.accumulated_fba_fees - (buyback_amount + issuer_amount)
        d1 == [d EXCEPT !.core_dd.current_supply = @ - network_amount]
        d2 == IF buyback_amount # 0
              THEN push_applied_operation(
                       adjust_balance(d1, fba.buyback_account, buyback_amount),
                       [account_id |-> fba.buyback_account, fba_id |-> fba_id,
                        amount |-> buyback_amount])
              ELSE d1
        d3 == IF issuer_amount # 0
              THEN push_applied_operation(
                       adjust_balance(d2, fba.issuer, issuer_amount),
                       [account_id |-> fba.issuer, fba_id |-> fba_id,
                        amount |-> issuer_amount])
              ELSE d2
    IN IF fba.accumulated_fba_fees = 0 THEN d
       ELSE IF ~fba.is_configured
       THEN [d EXCEPT !.core_dd.current_supply = @ - fba.accumulated_fba_fees,
                      !.fba[fba_id].accumulated_fba_fees = 0]
       ELSE [d3 EXCEPT !.fba[fba_id].accumulated_fba_fees = 0]

distribute_fba_balances(d) ==
    LET a == split_fba_balance(d, fba_accumulator_id_transfer_to_blind,
                 20 * GRAPHENE_1_PERCENT, 60 * GRAPHENE_1_PERCENT, 20 * GRAPHENE_1_PERCENT)
        b == split_fba_balance(a, fba_accumulator_id_blind_transfer,
                 20 * GRAPHENE_1_PERCENT, 60 * GRAPHENE_1_PERCENT, 20 * GRAPHENE_1_PERCENT)
    IN split_fba_balance(b, fba_accumulator_id_transfer_from_blind,
                 20 * GRAPHENE_1_PERCENT, 60 * GRAPHENE_1_PERCENT, 20 * GRAPHENE_1_PERCENT)


(* ------------------------------------------------------------------ *)
(* create_buyback_orders                                               *)
(* ------------------------------------------------------------------ *)
\* lower_bound of the by_account_asset index: the first row not before
\* (owner, asset), or the end
lower_bound(rows, owner, asset) ==
    LET later == {i \in DOMAIN rows :
                     \/ rows[i].owner > owner
                     \/ rows[i].owner = owner /\ rows[i].asset_type >= asset}
    IN IF later = {} THEN Len(rows) + 1 ELSE CHOOSE i \in later : \A j \in later : i <= j

\* The rows after adjust_balance on a holding: the row is created when the
\* account has none
adjusted(rows, owner, asset, delta) ==
    CHOOSE result \in
        { IF it <= Len(rows) /\ rows[it].owner = owner /\ rows[it].asset_type = asset
          THEN [rows EXCEPT ![it].balance = @ + delta]
          ELSE SubSeq(rows, 1, it - 1)
                 \o <<[owner |-> owner, asset_type |-> asset, balance |-> delta]>>
                 \o SubSeq(rows, it, Len(rows)) :
            it \in {lower_bound(rows, owner, asset)} } : TRUE

adjust_holding(d, owner, asset, delta) ==
    CHOOSE result \in
        { [d EXCEPT !.account_balance = adjusted(rows, owner, asset, delta)] :
            rows \in {d.account_balance} } : TRUE

\* What the market fills of an order that sells amount of asset
Filled(d, asset, amount) ==
    CASE d.market[asset + 1] = "filled" -> amount
      [] d.market[asset + 1] = "partly_filled" -> (amount + 1) \div 2
      [] OTHER -> 0

\* limit_order_create_operation applied without an exception: the whole
\* holding goes into the order, what the market fills is received in
\* asset_to_buy, an order that is not filled whole stays in the store
limit_order_create(d, seller, amount_to_sell, asset_to_sell, asset_to_buy) ==
    LET sold == Filled(d, asset_to_sell, amount_to_sell)
        d1 == push_applied_operation(
                  adjust_holding(d, seller, asset_to_sell, 0 - amount_to_sell),
                  [op |-> "limit_order_create", fee |-> 0, seller |-> seller,
                   amount_to_sell |-> amount_to_sell, asset_to_sell |-> asset_to_sell,
                   min_to_receive |-> 1, asset_to_buy |-> asset_to_buy,
                   expiration |-> "maximum", fill_or_kill |-> FALSE])
        d2 == IF sold > 0 THEN adjust_holding(d1, seller, asset_to_buy, sold) ELSE d1
    IN [d2 EXCEPT !.next_order_id = @ + 1,
                  !.limit_orders =
                      IF sold = amount_to_sell THEN @
                      ELSE @ \cup {[id |-> d.next_order_id, seller |-> seller,
                                    sell_asset |-> asset_to_sell,
                                    for_sale |-> amount_to_sell - sold]}]

\* limit_order_cancel_operation applied: what is left for sale goes back
limit_order_cancel(d, order) ==
    push_applied_operation(
        [adjust_holding(d, order.seller, order.sell_asset, order.for_sale)
            EXCEPT !.limit_orders = @ \ {order}],
        [op |-> "limit_order_cancel", fee |-> 0, order |-> order.id,
         fee_paying_account |-> order.seller])

\* One more entry of the record of the scan
buyback_logged(d, bbo, asset, event) ==
    [d EXCEPT !.buyback_log = Append(@, [buyback |-> bbo, asset |-> asset, event |-> event])]

buyback_attempt_leaving_the_order(d, bbo, seller, amount_to_sell, asset_to_sell, asset_to_buy) ==
    IF d.market[asset_to_sell + 1] = "create_raises"
    THEN buyback_logged(d, bbo, asset_to_sell, "raised")
    ELSE buyback_logged(limit_order_create(d, seller, amount_to_sell, asset_to_sell,
                                           asset_to_buy),
                        bbo, asset_to_sell, "done")

\* The try block of create_buyback_orders and its catch of fc::exception
buyback_attempt(d, bbo, seller, amount_to_sell, asset_to_sell, asset_to_buy) ==
    IF d.market[asset_to_sell + 1] = "create_raises"
    THEN buyback_logged(d, bbo, asset_to_sell, "raised")
    ELSE CHOOSE result \in
           { LET found == {o \in created.limit_orders : o.id = d.next_order_id}
             IN IF found = {} THEN buyback_logged(created, bbo, asset_to_sell, "done")
                ELSE IF d.market[asset_to_sell + 1] = "cancel_raises"
                THEN buyback_logged(created, bbo, asset_to_sell, "raised")
                ELSE CHOOSE cancelled \in
                       { buyback_logged(limit_order_cancel(created, order),
                                        bbo, asset_to_sell, "done") : order \in found } : TRUE :
               created \in {limit_order_create(d, seller, amount_to_sell, asset_to_sell,
                                               asset_to_buy)} } : TRUE

buyback_iteration_advancing_after_the_skips(d, bbo, next_asset) ==
    LET buyback_account == d.buybacks[bbo].buyback_account
        asset_to_buy == d.buybacks[bbo].asset_to_buy
        rows == d.account_balance
        it == lower_bound(rows, buyback_account, next_asset)
    IN IF it = Len(rows) + 1 \/ rows[it].owner # buyback_account
       THEN [d |-> d, next_asset |-> next_asset, more |-> FALSE]
       ELSE IF rows[it].asset_type = asset_to_buy
       THEN [d |-> buyback_logged(d, bbo, rows[it].asset_type, "own"),
             next_asset |-> next_asset, more |-> TRUE]
       ELSE [d |-> buyback_attempt(d, bbo, buyback_account, rows[it].balance,
                                   rows[it].asset_type, asset_to_buy),
             next_asset |-> rows[it].asset_type + 1, more |-> TRUE]

\* One iteration of the while( true ) loop over the holdings of the buyback
\* account of buyback object bbo; more is FALSE when the loop breaks
buyback_iteration(d, bbo, next_asset) ==
    LET buyback_account == d.buybacks[bbo].buyback_account
        asset_to_buy == d.buybacks[bbo].asset_to_buy
        rows == d.account_balance
        it == lower_bound(rows, buyback_account, next_asset)
    IN IF it = Len(rows) + 1 \/ rows[it].owner # buyback_account
       THEN [d |-> d, next_asset |-> next_asset, more |-> FALSE]
       ELSE LET asset_to_sell == rows[it].asset_type
                amount_to_sell == rows[it].balance
            IN [d |-> IF asset_to_sell = asset_to_buy
                      THEN buyback_logged(d, bbo, asset_to_sell, "own")
                      ELSE IF amount_to_sell = 0
                      THEN buyback_logged(d, bbo, asset_to_sell, "empty")
                      ELSE IF asset_to_sell \notin d.buybacks[bbo].allowed_assets
                      THEN buyback_logged(d, bbo, asset_to_sell, "disallowed")
                      ELSE buyback_attempt(d, bbo, buyback_account, amount_to_sell,
                                           asset_to_sell, asset_to_buy),
                next_asset |-> asset_to_sell + 1,
                more |-> TRUE]

\* The while( true ) loop from the cursor next_asset on
RECURSIVE HoldingsFrom(_, _, _)
HoldingsFrom(d, bbo, next_asset) ==
    LET step == buyback_iteration(d, bbo, next_asset)
    IN IF step.more THEN HoldingsFrom(step.d, bbo, step.next_asset) ELSE d

\* The loop over the buyback objects from the bbo-th on; an account without
\* allowed_assets is skipped
RECURSIVE BuybacksFrom(_, _)
BuybacksFrom(d, bbo) ==
    IF bbo > Len(d.buybacks) THEN d
    ELSE BuybacksFrom(IF d.buybacks[bbo].allowed_assets_valid
                      THEN HoldingsFrom(d, bbo, 0) ELSE d,
                      bbo + 1)

create_buyback_orders(d) == BuybacksFrom(d, 1)

(* ------------------------------------------------------------------ *)
(* perform_chain_maintenance: parameter switch, next maintenance time  *)
(* ------------------------------------------------------------------ *)
\* The modify(gpo, ...) that removes the fee scaling and installs pending_parameters
switch_parameters_scaling_the_pending(d) ==
    LET p == IF d.gpo.pending_parameters # <<>>
             THEN d.gpo.pending_parameters[1] ELSE d.gpo.parameters
        shift == p.account_fee_scale_bitshifts *
                   (d.dpo.accounts_registered_this_interval \div p.accounts_per_fee_scale)
    IN [d EXCEPT !.gpo.parameters = [p EXCEPT !.basic_fee = ShiftRight(@, shift)],
                 !.gpo.pending_parameters = <<>>]

switch_parameters_after_the_budget(d) ==
    LET p == d.gpo.parameters
        shift == p.account_fee_scale_bitshifts *
                   (d.dpo.accounts_registered_this_interval \div p.accounts_per_fee_scale)
    IN [d EXCEPT !.gpo.parameters = [p EXCEPT !.basic_fee = ShiftRight(@, shift)]]

switch_parameters(d) ==
    LET p == d.gpo.parameters
        shift == p.account_fee_scale_bitshifts *
                   (d.dpo.accounts_registered_this_interval \div p.accounts_per_fee_scale)
        scaled == [p EXCEPT !.basic_fee = ShiftRight(@, shift)]
    IN [d EXCEPT !.gpo.parameters = IF d.gpo.pending_parameters # <<>>
                                    THEN d.gpo.pending_parameters[1] ELSE scaled,
                 !.gpo.pending_parameters = <<>>]

MaintenanceAdvance_by_half_an_interval(y, is_change_time, maintenance_interval) ==
    IF is_change_time
    THEN ((2 * y + 1) * maintenance_interval) \div 2
    ELSE (y + 1) * maintenance_interval

\* uint32_t((y + coef) * maintenance_interval): coef is 1, or 0.375 = 3/8
MaintenanceAdvance(y, is_change_time, maintenance_interval) ==
    IF is_change_time
    THEN ((8 * y + 3) * maintenance_interval) \div 8
    ELSE (y + 1) * maintenance_interval

\* The next_maintenance_time computed for next_block
next_maintenance_time(d, block) ==
    LET maintenance_interval == d.gpo.parameters.maintenance_interval
        nmt == d.dpo.next_maintenance_time
        y == (head_block_time(d) - nmt) \div maintenance_interval
    IN IF nmt <= block.timestamp
       THEN IF block.block_num = 1
            THEN ((block.timestamp \div maintenance_interval) + 1) * maintenance_interval
            ELSE nmt + MaintenanceAdvance(y,
                          head_block_time(d) = HARDFORK_616_MAINTENANCE_CHANGE_TIME,
                          maintenance_interval)
       ELSE nmt

\* account_upgrade_operation with upgrade_to_lifetime_member
upgrade_account(d, a) ==
    [d EXCEPT !.annual_members = @ \ {a}, !.lifetime_members = @ \cup {a}]

\* The loop of deprecate_annual_members from account a on: an upgrade that
\* raises an fc::exception is logged and the loop goes on
RECURSIVE DeprecateFrom(_, _)
DeprecateFrom(d, a) ==
    IF a > Len(d.accounts) THEN d
    ELSE DeprecateFrom(IF a \in d.annual_members /\ a \notin d.failing_upgrades
                       THEN upgrade_account(d, a) ELSE d,
                       a + 1)

\* deprecate_annual_members; d.deprecations notes the time of every call
deprecate_annual_members(d) ==
    [DeprecateFrom(d, 1) EXCEPT !.deprecations = Append(@, head_block_time(d))]

advance_maintenance_deprecating_after_613(d, block) ==
    LET nmt == next_maintenance_time(d, block)
        members == IF nmt >= HARDFORK_613_TIME THEN deprecate_annual_members(d) ELSE d
    IN [members EXCEPT !.dpo.next_maintenance_time = nmt,
                       !.dpo.accounts_registered_this_interval = 0]

\* From the computed next_maintenance_time to the modify of the dynamic
\* global properties
advance_maintenance(d, block) ==
    LET nmt == next_maintenance_time(d, block)
        members == IF d.dpo.next_maintenance_time < HARDFORK_613_TIME
                      /\ nmt >= HARDFORK_613_TIME
                   THEN deprecate_annual_members(d) ELSE d
    IN [members EXCEPT !.dpo.next_maintenance_time = nmt,
                       !.dpo.accounts_registered_this_interval = 0]

(* ------------------------------------------------------------------ *)
(* The end of the pass: process_funds, the bonuses, process_cheques,   *)
(* clear_old_entities                                                  *)
(* ------------------------------------------------------------------ *)
\* fund_object::process and fund_object::finish, counted on the fund
fund_process(f) == [f EXCEPT !.processed = @ + 1]
fund_finish(f) == [f EXCEPT !.finished = @ + 1, !.enabled = FALSE]

process_fund_finishing_the_overdue(d, f) ==
    IF d.dpo.next_maintenance_time - d.gpo.parameters.maintenance_interval >= f.datetime_end
    THEN fund_finish(f)
    ELSE IF ~f.enabled THEN f ELSE fund_process(f)

\* The body of the loop of process_funds
process_fund(d, f) ==
    IF ~f.enabled \/ f.datetime_end < head_block_time(d) THEN f
    ELSE IF d.dpo.next_maintenance_time - d.gpo.parameters.maintenance_interval
               >= f.datetime_end
         THEN fund_finish(fund_process(f))
         ELSE fund_process(f)

process_funds(d) ==
    [d EXCEPT !.funds = [i \in DOMAIN d.funds |-> process_fund(d, d.funds[i])]]

bonus_variant_of_the_oldest_hardfork(now) ==
    IF now > HARDFORK_616_TIME THEN "issue_bonuses_old"
    ELSE IF now > HARDFORK_617_TIME THEN "issue_bonuses_before_620"
    ELSE IF now > HARDFORK_620_TIME THEN "issue_bonuses"
    ELSE "none"

\* The bonus function the pass calls at head_block_time now
bonus_variant(now) ==
    IF now > HARDFORK_620_TIME THEN "issue_bonuses"
    ELSE IF now > HARDFORK_617_TIME THEN "issue_bonuses_before_620"
    ELSE IF now > HARDFORK_616_TIME THEN "issue_bonuses_old"
    ELSE "none"

\* issue_bonuses, issue_bonuses_before_620 or issue_bonuses_old: the call is
\* noted in d.bonuses
issue_bonus(d) ==
    IF bonus_variant(head_block_time(d)) = "none" THEN d
    ELSE [d EXCEPT !.bonuses = Append(@, [time |-> head_block_time(d),
                                          variant |-> bonus_variant(head_block_time(d))])]

\* cheque_reverse_operation applied: the cheque is undone and what remained
\* of it goes back to the drawer
cheque_reverse(d, c) ==
    [d EXCEPT !.cheques[c].status = "undo",
              !.cheques[c].remaining_amount = 0,
              !.balance[d.cheques[c].drawer] = @ + d.cheques[c].remaining_amount,
              !.applied_operations =
                  Append(@, [op |-> "cheque_reverse", cheque_id |-> d.cheques[c].id,
                             account_id |-> d.cheques[c].drawer,
                             amount |-> d.cheques[c].remaining_amount])]

cheque_is_due_at_head_block_time(d, q) ==
    q.status = "new" /\ head_block_time(d) >= q.expiration

\* The condition of the loop of process_cheques
cheque_is_due(d, q) ==
    /\ q.status = "new"
    /\ d.dpo.next_maintenance_time - d.gpo.parameters.maintenance_interval >= q.expiration

\* The loop of process_cheques from the c-th cheque on; a reversal that
\* raises fc::assert_exception changes nothing
RECURSIVE ChequesFrom(_, _)
ChequesFrom(d, c) ==
    IF c > Len(d.cheques) THEN d
    ELSE ChequesFrom(IF cheque_is_due(d, d.cheques[c]) /\ ~d.cheques[c].reverse_fails
                     THEN cheque_reverse(d, c) ELSE d,
                     c + 1)

process_cheques(d) == ChequesFrom(d, 1)

Since_the_day_after(table, tp) == SelectSeq(table, LAMBDA r : r.time > tp)

\* remove() from begin() to lower_bound(tp) of the index by time
Since(table, tp) == SelectSeq(table, LAMBDA r : r.time >= tp)

clear_old_entities(d) ==
    LET now == head_block_time(d)
        tp == now - d.history_size * SecondsPerDay
        matured == IF now # HARDFORK_616_MAINTENANCE_CHANGE_TIME
                   THEN [d EXCEPT !.account_mature_balance = {}] ELSE d
        pruned == IF d.history_size > 0
                  THEN [matured EXCEPT
                          !.operation_history = Since(@, tp),
                          !.account_transaction_history =
                              IF now > HARDFORK_617_TIME THEN Since(@, tp) ELSE @,
                          !.fund_transaction_history = Since(@, tp),
                          !.blind_transfer2 = Since(@, tp),
                          !.cheques = Since(@, tp)]
                  ELSE matured
    IN IF now > HARDFORK_618_TIME THEN [pruned EXCEPT !.online_info = {}] ELSE pruned

VARIABLES
    pc,                               \* position inside perform_chain_maintenance
    acct_i,                           \* perform_account_maintenance: accounts done
    next_block,                       \* the block being applied
    call,                             \* the arguments and result of a function called alone
    db,                               \* the object store
    undo,                             \* the store as it was before this block
    _vote_tally_buffer,               \* database scratch buffers
    _witness_count_histogram_buffer,
    _committee_count_histogram_buffer,
    _total_voting_stake,
    last_exit,                        \* how the last pass ended
    passes

vars == <<pc, acct_i, next_block, call, db, undo, _vote_tally_buffer,
          _witness_count_histogram_buffer, _committee_count_histogram_buffer,
          _total_voting_stake, last_exit, passes>>

buffers == <<_vote_tally_buffer, _witness_count_histogram_buffer,
             _committee_count_histogram_buffer, _total_voting_stake>>

(* ------------------------------------------------------------------ *)
(* The object store after genesis and mid-chain                        *)
(* ------------------------------------------------------------------ *)
Options(voting_account, votes, num_witness, num_committee) ==
    [voting_account |-> voting_account, votes |-> votes,
     num_witness |-> num_witness, num_committee |-> num_committee]

Account(options, member, in_orders, cashback) ==
    [options |-> options, is_member |-> member,
     total_core_in_orders |-> in_orders, cashback_vb |-> cashback]

Parameters(interval, pay_per_block, worker_per_day) ==
    [maintenance_interval |-> interval, block_interval |-> 5,
     witness_pay_per_block |-> pay_per_block, worker_budget_per_day |-> worker_per_day,
     maximum_witness_count |-> 7, maximum_committee_count |-> 5,
     count_non_member_votes |-> FALSE,
     basic_fee |-> 4000, account_fee_scale_bitshifts |-> 2, accounts_per_fee_scale |-> 10]

Authority(threshold, auths) == [weight_threshold |-> threshold, account_auths |-> auths]

\* witness objects 1..n, object i holding vote id vote_of[i] and account i
Witnesses(n, vote_of) ==
    [i \in 1..n |-> [witness_account |-> i, vote_id |-> vote_of[i], total_votes |-> 0]]

\* committee member objects 1..n with vote ids first, first+1, ...
Committee(n, first) ==
    [i \in 1..n |-> [committee_member_account |-> i, vote_id |-> first + i - 1,
                     total_votes |-> 0]]

Worker(kind, daily_pay, vote_for, begin, end) ==
    [worker |-> kind, daily_pay |-> daily_pay, vote_for |-> vote_for,
     vote_against |-> vote_for + 1, work_begin_date |-> begin, work_end_date |-> end,
     total_votes_for |-> 0, total_votes_against |-> 0]

Fba(amount, configured) ==
    [accumulated_fba_fees |-> amount, is_configured |-> configured,
     buyback_account |-> 1, issuer |-> 2]

\* The chain position: just after genesis, or some blocks into the chain
Genesis == [time |-> 3000, head_block_number |-> 0, next_maintenance_time |-> 0,
            last_budget_time |-> 0]
MidChain(interval) ==
    [time |-> 7400, head_block_number |-> 5, next_maintenance_time |-> 3 * interval,
     last_budget_time |-> 2 * interval + 100]

\* The amounts of the core asset that are part of current_supply
Issued(d) ==
    SumSet(DOMAIN d.balance, d.balance) + SumSet(DOMAIN d.vesting, d.vesting)
      + d.core_dd.accumulated_fees + d.dpo.witness_budget
      + SumSet(DOMAIN d.fba, [f \in DOMAIN d.fba |-> d.fba[f].accumulated_fba_fees])

\* A store whose current_supply is what has been issued, k.reserve below
\* the core asset's max_supply
Store(k) ==
    LET d == [core_dd |-> [current_supply |-> 0, accumulated_fees |-> k.fees],
              max_supply |-> 0,
              balance |-> k.balance,
              vesting |-> [w \in DOMAIN k.workers |-> 0],
              fba |-> k.fba,
              dpo |-> [time |-> k.chain.time,
                       head_block_number |-> k.chain.head_block_number,
                       next_maintenance_time |-> k.chain.next_maintenance_time,
                       last_budget_time |-> k.chain.last_budget_time,
                       witness_budget |-> k.witness_budget,
                       accounts_registered_this_interval |-> 25],
              gpo |-> [parameters |-> k.parameters,
                       pending_parameters |-> k.pending,
                       active_witnesses |-> {},
                       active_committee_members |-> {},
                       next_available_vote_id |-> k.next_available_vote_id],
              cpo |-> [min_witness_count |-> k.min_witness_count,
                       min_committee_member_count |-> 1],
              accounts |-> k.accounts,
              witnesses |-> k.witnesses,
              committee |-> k.committee,
              workers |-> k.workers,
              witness_active |-> Authority(1, <<>>),
              committee_active |-> Authority(1, <<>>),
              relaxed_active |-> Authority(1, <<>>),
              budget_records |-> <<>>,
              applied_operations |-> <<>>,
              payments |-> <<>>,
              annual_members |-> {},
              lifetime_members |-> {},
              failing_upgrades |-> {},
              deprecations |-> <<>>,
              funds |-> <<>>,
              bonuses |-> <<>>,
              cheques |-> <<>>,
              history_size |-> 0,
              operation_history |-> <<>>,
              account_transaction_history |-> <<>>,
              fund_transaction_history |-> <<>>,
              blind_transfer2 |-> <<>>,
              account_mature_balance |-> {},
              online_info |-> {},
              buybacks |-> <<>>,
              account_balance |-> <<>>,
              market |-> <<>>,
              limit_orders |-> {},
              next_order_id |-> 0,
              buyback_log |-> <<>>,
              env |-> k.env]
    IN [d EXCEPT !.core_dd.current_supply = Issued(d),
                 !.max_supply = Issued(d) + k.reserve]

NoFba == [f \in FbaIds |-> Fba(0, TRUE)]

\* Three accounts: 1 and 2 vote for themselves, 3 is a non-member whose stake
\* follows account 1
DefaultAccounts ==
    <<Account(Options(GRAPHENE_PROXY_TO_SELF_ACCOUNT, {0, 1, 3, 5, 7}, 2, 1), TRUE, 0, 0),
      Account(Options(GRAPHENE_PROXY_TO_SELF_ACCOUNT, {2, 6, 7}, 1, 0), TRUE, 20, 5),
      Account(Options(1, {}, 0, 0), FALSE, 30, 0)>>

DefaultBalance == <<1000, 500, 0>>

WorkerKinds == {<<"refund", "vesting">>, <<"burn", "burn">>, <<"vesting", "refund">>}

\* What the blocks between two passes do: the delays of the block that
\* triggers the pass, and the fees its transactions pay
Env(delays, change_time, block_fee) ==
    [delays |-> delays, change_time |-> change_time, block_fee |-> block_fee]

\* The workers with vote ids from first on
Workers(kinds, first) ==
    <<Worker(kinds[1], 24000, first, 0, 100000),
      Worker(kinds[2], 48000, first + 2, 0, 100000)>>

BudgetStores ==
    { Store([fees |-> money[1], witness_budget |-> money[2], reserve |-> 399000000,
             balance |-> DefaultBalance, fba |-> [NoFba EXCEPT ![0] = fba0,
                                                  ![2] = Fba(33, FALSE)],
             chain |-> chain, parameters |-> Parameters(pp[1], pay[1], pay[2]),
             pending |-> pp[2], next_available_vote_id |-> 9,
             min_witness_count |-> 1, accounts |-> DefaultAccounts,
             witnesses |-> Witnesses(3, <<0, 1, 2>>), committee |-> Committee(2, 3),
             workers |-> Workers(kinds, 5),
             env |-> Env({0, 1800, 4000}, TRUE, 40)]) :
        money \in {<<0, 0>>, <<40, 25>>},
        fba0 \in {Fba(0, TRUE), Fba(1000, TRUE), Fba(7, TRUE), Fba(7, FALSE)},
        chain \in {Genesis, MidChain(3600)},
        pp \in {<<3600, <<>> >>, <<2400, <<>> >>,
                <<3600, <<Parameters(2400, 1, 20000)>> >>},
        pay \in {<<2, 50000>>, <<0, 50000>>, <<2, 0>>},
        kinds \in WorkerKinds }

InitWith(stores) ==
    /\ pc = "idle" /\ acct_i = 0
    /\ next_block = [timestamp |-> 0, block_num |-> 0]
    /\ call = [fba_id |-> 0, shares |-> <<0, 0, 0>>]
    /\ db \in stores /\ undo = db
    /\ _vote_tally_buffer = <<>> /\ _witness_count_histogram_buffer = <<>>
    /\ _committee_count_histogram_buffer = <<>> /\ _total_voting_stake = 0
    /\ last_exit = "none" /\ passes = 0

\* Stores near max_supply: what is left to issue equals the fees held by
\* the fee pools
TightStores ==
    { Store([fees |-> 40, witness_budget |-> 25,
             reserve |-> fba0.accumulated_fba_fees,
             balance |-> DefaultBalance, fba |-> [NoFba EXCEPT ![0] = fba0],
             chain |-> MidChain(3600), parameters |-> Parameters(3600, 2, 50000),
             pending |-> <<>>, next_available_vote_id |-> 9,
             min_witness_count |-> 1, accounts |-> DefaultAccounts,
             witnesses |-> Witnesses(3, <<0, 1, 2>>), committee |-> Committee(2, 3),
             workers |-> Workers(<<"vesting", "refund">>, 5),
             env |-> Env({0}, FALSE, 40)]) :
        fba0 \in {Fba(0, TRUE), Fba(1000, TRUE)} }

\* Stores whose members 1 and 2 may be annual members, one of them with an
\* upgrade that fails
AnnualStores ==
    { [Store([fees |-> 40, witness_budget |-> 25, reserve |-> 399000000,
              balance |-> DefaultBalance, fba |-> NoFba,
              chain |-> MidChain(3600), parameters |-> Parameters(3600, 2, 50000),
              pending |-> <<>>, next_available_vote_id |-> 9,
              min_witness_count |-> 1, accounts |-> DefaultAccounts,
              witnesses |-> Witnesses(3, <<0, 1, 2>>), committee |-> Committee(2, 3),
              workers |-> Workers(<<"refund", "vesting">>, 5),
              env |-> Env({0, 4000}, FALSE, 40)])
         EXCEPT !.annual_members = annual, !.failing_upgrades = failing] :
        annual \in {{2}, {1, 2}}, failing \in {{}, {1}} }

Init == InitWith(BudgetStores \cup TightStores \cup AnnualStores)

(* ------------------------------------------------------------------ *)
(* Actions                                                             *)
(* ------------------------------------------------------------------ *)
\* The timestamps a block that triggers maintenance may carry
Timestamps(d) ==
    LET first == Max(d.dpo.next_maintenance_time, d.dpo.time + d.gpo.parameters.block_interval)
    IN {first + delay : delay \in d.env.delays}
         \cup (IF d.env.change_time /\ HARDFORK_616_MAINTENANCE_CHANGE_TIME >= first
               THEN {HARDFORK_616_MAINTENANCE_CHANGE_TIME} ELSE {})

\* The blocks up to and including the next one with maint_needed: their
\* transactions pay fees, update_global_dynamic_data sets the head block
ApplyBlock ==
    /\ pc = "idle" /\ passes < MaxPasses
    /\ \E ts \in Timestamps(db) :
         LET fee == Min(db.env.block_fee, db.balance[1])
         IN /\ next_block' = [timestamp |-> ts, block_num |-> db.dpo.head_block_number + 1]
            /\ db' = [db EXCEPT !.balance[1] = @ - fee,
                                !.core_dd.accumulated_fees = @ + fee,
                                !.dpo.time = ts,
                                !.dpo.head_block_number = @ + 1]
    /\ undo' = db
    /\ pc' = "fba" /\ last_exit' = "running"
    /\ UNCHANGED <<acct_i, call, buffers, passes>>

DistributeFba ==
    /\ pc = "fba"
    /\ db' = create_buyback_orders(distribute_fba_balances(db))
    /\ pc' = "tally"
    /\ UNCHANGED <<acct_i, next_block, call, undo, buffers, last_exit, passes>>

\* The constructor of vote_tally_helper
TallyHelper ==
    /\ pc = "tally"
    /\ _vote_tally_buffer' = Resize(_vote_tally_buffer, db.gpo.next_available_vote_id)
    /\ _witness_count_histogram_buffer' =
           Resize(_witness_count_histogram_buffer,
                  db.gpo.parameters.maximum_witness_count \div 2 + 1)
    /\ _committee_count_histogram_buffer' =
           Resize(_committee_count_histogram_buffer,
                  db.gpo.parameters.maximum_committee_count \div 2 + 1)
    /\ _total_voting_stake' = 0
    /\ pc' = "accounts" /\ acct_i' = 0
    /\ UNCHANGED <<next_block, call, db, undo, last_exit, passes>>

\* perform_account_maintenance: the tally helper on the next account by
\* name; what process_fees does to the account is outside this model
AccountMaintenance ==
    /\ pc = "accounts"
    /\ LET bufs == TallyAccount(db, acct_i + 1, buffers)
       IN /\ _vote_tally_buffer' = bufs[1]
          /\ _witness_count_histogram_buffer' = bufs[2]
          /\ _committee_count_histogram_buffer' = bufs[3]
          /\ _total_voting_stake' = bufs[4]
    /\ acct_i' = acct_i + 1
    /\ pc' = IF acct_i + 1 = Len(db.accounts) THEN "witnesses" ELSE "accounts"
    /\ UNCHANGED <<next_block, call, db, undo, last_exit, passes>>

\* abort(): the process ends where it stands
Abort ==
    /\ pc' = "aborted"
    /\ UNCHANGED <<acct_i, next_block, call, db, undo, buffers, last_exit, passes>>

\* update_active_witnesses.  With no witness object sort_votable_objects
\* calls front() on an empty vector: the call is harmless or ends the
\* process, as the library build has it.
UpdateActiveWitnesses ==
    /\ pc = "witnesses"
    /\ \/ /\ \E msb0 \in MsbOfZero :
               db' = update_active_witnesses(db, _vote_tally_buffer,
                         _witness_count_histogram_buffer, _total_voting_stake, msb0)
          /\ pc' = "committee"
          /\ UNCHANGED <<acct_i, next_block, call, undo, buffers, last_exit, passes>>
       \/ /\ DOMAIN db.witnesses = {}
          /\ Abort

UpdateActiveCommitteeMembers ==
    /\ pc = "committee"
    /\ \/ /\ \E msb0 \in MsbOfZero :
               db' = update_active_committee_members(db, _vote_tally_buffer,
                         _witness_count_histogram_buffer,
                         _committee_count_histogram_buffer, _total_voting_stake, msb0)
          /\ pc' = "workers"
          /\ UNCHANGED <<acct_i, next_block, call, undo, buffers, last_exit, passes>>
       \/ /\ DOMAIN db.committee = {}
          /\ Abort

UpdateWorkerVotes ==
    /\ pc = "workers"
    /\ db' = update_worker_votes(db, _vote_tally_buffer,
                                 head_block_time(db) < HARDFORK_607_TIME)
    /\ pc' = "parameters"
    /\ UNCHANGED <<acct_i, next_block, call, undo, buffers, last_exit, passes>>

SwitchParameters ==
    /\ pc = "parameters"
    /\ db' = switch_parameters(db)
    /\ pc' = "advance"
    /\ UNCHANGED <<acct_i, next_block, call, undo, buffers, last_exit, passes>>

AdvanceMaintenance ==
    /\ pc = "advance"
    /\ db' = advance_maintenance(db, next_block)
    /\ pc' = "budget"
    /\ UNCHANGED <<acct_i, next_block, call, undo, buffers, last_exit, passes>>

\* The scratch buffers after the clear_canary destructors
ClearBuffers ==
    /\ _vote_tally_buffer' = <<>>
    /\ _witness_count_histogram_buffer' = <<>>
    /\ _committee_count_histogram_buffer' = <<>>
    /\ UNCHANGED _total_voting_stake

\* The clear_canary objects are alive from after perform_account_maintenance
CanaryAlive == pc \in {"witnesses", "committee", "workers", "parameters", "advance",
                      "budget", "tail", "bonuses", "cheques", "entities"}

\* An exception leaves perform_chain_maintenance: the block is not applied
\* and the store goes back to its state before the block
Unwind ==
    /\ db' = undo
    /\ IF CanaryAlive THEN ClearBuffers ELSE UNCHANGED buffers
    /\ pc' = "idle" /\ last_exit' = "raised" /\ passes' = passes + 1
    /\ UNCHANGED <<acct_i, next_block, call, undo>>

\* process_budget.  Its assert( time_to_maint > 0 ) ends the process where
\* asserts are compiled in and is absent where they are not.
ProcessBudget ==
    /\ pc = "budget"
    /\ \/ /\ db' = process_budget(db)
          /\ pc' = "tail"
          /\ UNCHANGED <<acct_i, next_block, call, undo, buffers, last_exit, passes>>
       \/ /\ db.dpo.next_maintenance_time - head_block_time(db) <= 0
          /\ Abort

\* The rest of the pass, and its return
ProcessFunds ==
    /\ pc = "tail"
    /\ db' = IF head_block_time(db) > HARDFORK_622_TIME THEN process_funds(db) ELSE db
    /\ pc' = "bonuses"
    /\ UNCHANGED <<acct_i, next_block, call, undo, buffers, last_exit, passes>>

\* The bonus function of the time, if any
IssueBonuses ==
    /\ pc = "bonuses"
    /\ db' = issue_bonus(db)
    /\ pc' = "cheques"
    /\ UNCHANGED <<acct_i, next_block, call, undo, buffers, last_exit, passes>>

ProcessCheques ==
    /\ pc = "cheques"
    /\ db' = process_cheques(db)
    /\ pc' = "entities"
    /\ UNCHANGED <<acct_i, next_block, call, undo, buffers, last_exit, passes>>

\* clear_old_entities, and the return of the pass
FinishPass ==
    /\ pc = "entities"
    /\ db' = clear_old_entities(db)
    /\ ClearBuffers
    /\ pc' = "idle" /\ last_exit' = "returned" /\ passes' = passes + 1
    /\ UNCHANGED <<acct_i, next_block, call, undo>>

\* A step of the pass raises
Raise ==
    /\ pc \notin {"idle", "aborted"}
    /\ Unwind

Next == \/ ApplyBlock \/ DistributeFba \/ TallyHelper \/ AccountMaintenance
        \/ UpdateActiveWitnesses \/ UpdateActiveCommitteeMembers \/ UpdateWorkerVotes
        \/ SwitchParameters \/ AdvanceMaintenance \/ ProcessBudget
        \/ ProcessFunds \/ IssueBonuses \/ ProcessCheques \/ FinishPass
        \/ Raise

Spec == Init /\ [][Next]_vars

(* ------------------------------------------------------------------ *)
(* The elections over many sets of witnesses and votes                 *)
(* ------------------------------------------------------------------ *)
\* vote ids in the order of the object ids, and in the opposite order
Identity(n) == [i \in 1..n |-> i - 1]
Reversed(n) == [i \in 1..n |-> n - i]

WitnessVoteIds ==
    {Identity(n) : n \in 0..MaxWitnesses} \cup {Reversed(n) : n \in 2..MaxWitnesses}
      \cup {Identity(11), Identity(12)}

\* The witness votes of an account and its num_witness, which is no more
\* than the witnesses it votes for
WitnessOpinions(n) ==
    LET sets == IF n <= MaxWitnesses THEN SUBSET (0..(n - 1)) ELSE {{}, {0, 1}}
    IN UNION {{<<v, 0>>, <<v, Cardinality(v)>>} : v \in sets}

\* Account 2 votes for nothing, or for the last witness and the first
\* committee member
SecondOpinions(n) == IF n = 0 THEN {{}, {n}} ELSE {{}, {n - 1, n}}

\* n witnesses hold the vote ids 0..n-1, the committee members the next
\* two, the workers the four after them
ElectStores ==
    { Store([fees |-> 40, witness_budget |-> 25, reserve |-> 399000000,
             balance |-> <<bal1, 39975, 0>>, fba |-> NoFba,
             chain |-> MidChain(3600),
             parameters |-> [Parameters(3600, 2, 50000) EXCEPT
                                !.maximum_witness_count = 13],
             pending |-> <<>>, next_available_vote_id |-> Len(vote_of) + 6,
             min_witness_count |-> minw,
             accounts |->
                <<Account(Options(GRAPHENE_PROXY_TO_SELF_ACCOUNT, first[1], first[2], 0),
                          TRUE, 0, 0),
                  Account(Options(GRAPHENE_PROXY_TO_SELF_ACCOUNT, second, 0, 0),
                          TRUE, 20, 5),
                  Account(Options(1, {}, 0, 0), FALSE, 30, 0)>>,
             witnesses |-> Witnesses(Len(vote_of), vote_of),
             committee |-> Committee(nc, Len(vote_of)),
             workers |-> Workers(<<"refund", "vesting">>, Len(vote_of) + 2),
             env |-> Env({0}, FALSE, 40)]) :
        vote_of \in WitnessVoteIds, bal1 \in {1, 40000}, minw \in {1, 3, 11},
        nc \in {0, 2},
        first \in UNION {WitnessOpinions(n) : n \in 0..12},
        second \in UNION {SecondOpinions(n) : n \in 0..12} }

\* The stores whose votes are for witnesses that exist
InitElect ==
    /\ InitWith(ElectStores)
    /\ LET n == Cardinality(DOMAIN db.witnesses)
       IN /\ <<db.accounts[1].options.votes, db.accounts[1].options.num_witness>>
                \in WitnessOpinions(n)
          /\ db.accounts[2].options.votes \in SecondOpinions(n)

SpecElect == InitElect /\ [][Next]_vars

(* ------------------------------------------------------------------ *)
(* split_fba_balance on its own                                        *)
(* ------------------------------------------------------------------ *)
\* <<network_pct, buyback_pct, issuer_pct>>; the last fails the FC_ASSERT
FbaShares ==
    {<<20 * GRAPHENE_1_PERCENT, 60 * GRAPHENE_1_PERCENT, 20 * GRAPHENE_1_PERCENT>>,
     <<0, GRAPHENE_100_PERCENT, 0>>, <<3334, 3333, 3333>>,
     <<50 * GRAPHENE_1_PERCENT, 1, 4999>>,
     <<20 * GRAPHENE_1_PERCENT, 60 * GRAPHENE_1_PERCENT, 30 * GRAPHENE_1_PERCENT>>}

FbaAmounts == (0..MaxFbaFees) \cup {1000, 9999}

FbaStores ==
    { Store([fees |-> 40, witness_budget |-> 25, reserve |-> 399000000,
             balance |-> DefaultBalance,
             fba |-> [NoFba EXCEPT ![fba_id] =
                         [Fba(amount, configured) EXCEPT !.issuer = issuer]],
             chain |-> MidChain(3600), parameters |-> Parameters(3600, 2, 50000),
             pending |-> <<>>, next_available_vote_id |-> 9,
             min_witness_count |-> 1, accounts |-> DefaultAccounts,
             witnesses |-> Witnesses(3, <<0, 1, 2>>), committee |-> Committee(2, 3),
             workers |-> Workers(<<"refund", "vesting">>, 5),
             env |-> Env({0}, FALSE, 0)]) :
        fba_id \in FbaIds, amount \in FbaAmounts, configured \in BOOLEAN,
        issuer \in {1, 2} }

InitFba == InitWith(FbaStores)

\* One call of split_fba_balance; the FC_ASSERT on the shares raises
SplitFbaBalance ==
    /\ pc = "idle" /\ passes = 0
    /\ \E fba_id \in FbaIds, shares \in FbaShares :
         /\ call' = [fba_id |-> fba_id, shares |-> shares]
         /\ IF FbaPercentagesValid(shares[1], shares[2], shares[3])
            THEN /\ db' = split_fba_balance(db, fba_id, shares[1], shares[2], shares[3])
                 /\ last_exit' = "returned"
            ELSE /\ db' = db
                 /\ last_exit' = "raised"
    /\ undo' = db
    /\ pc' = "split" /\ passes' = passes + 1
    /\ UNCHANGED <<acct_i, next_block, buffers>>

NextFba == SplitFbaBalance

SpecFba == InitFba /\ [][NextFba]_vars

(* ------------------------------------------------------------------ *)
(* pay_workers on its own                                              *)
(* ------------------------------------------------------------------ *)
\* Three workers with their tallied votes; the second may have ended
PaidWorkers(kinds, daily, votes_for, against3, end2) ==
    [w \in 1..3 |->
        [Worker(kinds[w], daily[w], 5 + 2 * (w - 1), 0,
                IF w = 2 THEN end2 ELSE 300000)
           EXCEPT !.total_votes_for = votes_for[w],
                  !.total_votes_against = IF w = 3 THEN against3 ELSE 0]]

PayIntervals == {3500, 43200, 86399, SecondsPerDay}

PayBudgets == {0, 1, 50, 75, 150, 12000, 30000, 100000}

PayStores ==
    { Store([fees |-> 40, witness_budget |-> 25, reserve |-> 399000000,
             balance |-> <<600000, 500, 0>>, fba |-> NoFba,
             chain |-> [time |-> 200000, head_block_number |-> 60,
                        next_maintenance_time |-> 201600,
                        last_budget_time |-> 200000 - dt],
             parameters |-> Parameters(3600, 2, 50000),
             pending |-> <<>>, next_available_vote_id |-> 11,
             min_witness_count |-> 1, accounts |-> DefaultAccounts,
             witnesses |-> Witnesses(3, <<0, 1, 2>>), committee |-> Committee(2, 3),
             workers |-> PaidWorkers(kinds, daily, votes_for, against3, end2),
             env |-> Env({0}, FALSE, 0)]) :
        dt \in PayIntervals,
        kinds \in {<<"vesting", "vesting", "vesting">>, <<"refund", "burn", "vesting">>},
        daily \in {<<100, 24000, 100>>, <<24000, 100, 24000>>},
        votes_for \in {<<500, 500, 500>>, <<100, 900, 500>>, <<0, 700, 700>>},
        against3 \in {0, 800},
        end2 \in {150000, 300000} }

InitPay == InitWith(PayStores)

\* One call of pay_workers with a budget
PayWorkers ==
    /\ pc = "idle" /\ passes = 0
    /\ \E budget \in PayBudgets :
         LET paid == pay_workers(db, budget)
         IN /\ db' = paid[1]
            /\ call' = [budget |-> budget, leftover |-> paid[2]]
    /\ undo' = db
    /\ pc' = "paid" /\ last_exit' = "returned" /\ passes' = passes + 1
    /\ UNCHANGED <<acct_i, next_block, buffers>>

NextPay == PayWorkers

SpecPay == InitPay /\ [][NextPay]_vars

(* ------------------------------------------------------------------ *)
(* The vote tally on its own                                           *)
(* ------------------------------------------------------------------ *)
\* Account 1 is a member with its own opinions; account 2 is a member that
\* votes itself or through account 1 or 3; account 3 is not a member, asks
\* for more witnesses than the maximum and votes itself or through account 1.
\* Vote ids 0..8 are allocated, 9 and above are not.
TallyStores ==
    { Store([fees |-> 40, witness_budget |-> 25, reserve |-> 399000000,
             balance |-> <<1000, 500, 70>>, fba |-> NoFba,
             chain |-> MidChain(3600),
             parameters |-> [Parameters(3600, 2, 50000) EXCEPT
                                !.count_non_member_votes = non_members],
             pending |-> <<>>, next_available_vote_id |-> 9,
             min_witness_count |-> 1,
             accounts |->
                <<Account(Options(GRAPHENE_PROXY_TO_SELF_ACCOUNT, votes1, num[1], num[2]),
                          TRUE, 0, 0),
                  Account(Options(proxy2, {2, 6, 7}, 1, 0), TRUE, 20, 5),
                  Account(Options(proxy3, {4, 11}, 9, 2), FALSE, 30, 0)>>,
             witnesses |-> Witnesses(3, <<0, 1, 2>>), committee |-> Committee(2, 3),
             workers |-> Workers(<<"refund", "vesting">>, 5),
             env |-> Env({0}, FALSE, 0)]) :
        non_members \in BOOLEAN,
        votes1 \in {{}, {0, 8}, {0, 9, 12}, {8, 9}},
        num \in {0, 3, 7, 8, 9, 20} \X {0, 5, 6},
        proxy2 \in {GRAPHENE_PROXY_TO_SELF_ACCOUNT, 1, 3},
        proxy3 \in {GRAPHENE_PROXY_TO_SELF_ACCOUNT, 1} }

InitTally == InitWith(TallyStores)

\* perform_chain_maintenance up to the construction of the tally helper
StartTally ==
    /\ pc = "idle" /\ passes = 0
    /\ pc' = "tally"
    /\ UNCHANGED <<acct_i, next_block, call, db, undo, buffers, last_exit, passes>>

\* The end of perform_account_maintenance
EndTally ==
    /\ pc = "witnesses"
    /\ pc' = "tallied" /\ last_exit' = "returned" /\ passes' = passes + 1
    /\ UNCHANGED <<acct_i, next_block, call, db, undo, buffers>>

NextTally == StartTally \/ TallyHelper \/ AccountMaintenance \/ EndTally

SpecTally == InitTally /\ [][NextTally]_vars

(* ------------------------------------------------------------------ *)
(* The two elections over many histograms                              *)
(* ------------------------------------------------------------------ *)
\* Stores with no or eight witnesses (vote ids 0..7), no, two or six
\* committee members (vote ids from 8), before and after HARDFORK_533, with
\* authorities and an active committee left by an earlier pass
CountStores ==
    { [Store([fees |-> 40, witness_budget |-> 25, reserve |-> 399000000,
              balance |-> DefaultBalance, fba |-> NoFba,
              chain |-> [MidChain(3600) EXCEPT !.time = now],
              parameters |-> Parameters(3600, 2, 50000),
              pending |-> <<>>, next_available_vote_id |-> 18,
              min_witness_count |-> 1, accounts |-> DefaultAccounts,
              witnesses |-> Witnesses(n, [i \in 1..n |-> i - 1]),
              committee |-> Committee(nc, 8),
              workers |-> Workers(<<"refund", "vesting">>, 14),
              env |-> Env({0}, FALSE, 0)])
         EXCEPT !.cpo.min_committee_member_count = minc,
                !.committee_active = Authority(9, [a \in {1} |-> 9]),
                !.relaxed_active = Authority(4, [a \in {2} |-> 4]),
                !.gpo.active_committee_members = {1} \cap (1..nc)] :
        now \in {7400, 15000}, n \in {0, 8}, nc \in {0, 2, 6}, minc \in {1, 3} }

\* The tallied votes of the eighteen vote ids: some, or none
CountTallies ==
    { <<5, 0, 3, 3, 9, 1, 0, 2, 4, 4, 0, 7, 1, 0, 0, 0, 0, 0>>,
      [i \in 1..18 |-> 0] }

\* The buffers as the tally may leave them
InitCount ==
    /\ pc = "witnesses" /\ acct_i = 3
    /\ next_block = [timestamp |-> 0, block_num |-> 0]
    /\ call = [fba_id |-> 0, shares |-> <<0, 0, 0>>]
    /\ db \in CountStores /\ undo = db
    /\ _vote_tally_buffer \in CountTallies
    /\ _witness_count_histogram_buffer \in [1..4 -> {0, 3}]
    /\ _committee_count_histogram_buffer \in [1..3 -> {0, 3}]
    /\ _total_voting_stake \in {0, 1, 4, 7, 12}
    /\ last_exit = "none" /\ passes = 0

NextCount == UpdateActiveWitnesses \/ UpdateActiveCommitteeMembers

SpecCount == InitCount /\ [][NextCount]_vars

(* ------------------------------------------------------------------ *)
(* The pass from the switch of the parameters on                       *)
(* ------------------------------------------------------------------ *)
\* Parameters proposed for the next interval: every budget parameter and
\* the account creation fee differ from those in force
PendingParameters ==
    [Parameters(2400, 1, 20000) EXCEPT !.block_interval = 3, !.basic_fee = 9000]

\* Stores with and without pending parameters, some accounts registered in
\* the interval, and a head block at or after next_maintenance_time
SwitchStores ==
    { [Store([fees |-> money[1], witness_budget |-> money[2], reserve |-> 399000000,
              balance |-> DefaultBalance, fba |-> NoFba,
              chain |-> [time |-> block[1], head_block_number |-> block[2],
                         next_maintenance_time |-> 10800,
                         last_budget_time |-> 7300],
              parameters |-> Parameters(3600, 2, 50000),
              pending |-> pending, next_available_vote_id |-> 9,
              min_witness_count |-> 1, accounts |-> DefaultAccounts,
              witnesses |-> Witnesses(3, <<0, 1, 2>>), committee |-> Committee(2, 3),
              workers |-> Workers(<<"refund", "vesting">>, 5),
              env |-> Env({0}, FALSE, 0)])
         EXCEPT !.dpo.accounts_registered_this_interval = registered] :
        money \in {<<0, 0>>, <<40, 25>>},
        block \in {10800, 11000, HARDFORK_616_MAINTENANCE_CHANGE_TIME, 15000} \X {1, 6},
        pending \in {<<>>, <<PendingParameters>>},
        registered \in {0, 7, 25, 40} }

\* The pass after update_worker_votes
InitSwitch ==
    /\ pc = "parameters" /\ acct_i = 3
    /\ db \in SwitchStores /\ undo = db
    /\ next_block = [timestamp |-> db.dpo.time, block_num |-> db.dpo.head_block_number]
    /\ call = [fba_id |-> 0, shares |-> <<0, 0, 0>>]
    /\ _vote_tally_buffer = [i \in 1..9 |-> 0]
    /\ _witness_count_histogram_buffer = <<0, 0, 0, 0>>
    /\ _committee_count_histogram_buffer = <<0, 0, 0>>
    /\ _total_voting_stake = 0
    /\ last_exit = "running" /\ passes = 0

NextSwitch == \/ SwitchParameters \/ AdvanceMaintenance \/ ProcessBudget
              \/ ProcessFunds \/ IssueBonuses \/ ProcessCheques \/ FinishPass

SpecSwitch == InitSwitch /\ [][NextSwitch]_vars

(* ------------------------------------------------------------------ *)
(* The pass from process_budget on, with funds, cheques and history    *)
(* ------------------------------------------------------------------ *)
\* Head block times around the hardforks of the bonuses and the funds
TailTimes ==
    {11500, HARDFORK_616_TIME, 12001, HARDFORK_616_MAINTENANCE_CHANGE_TIME, 100000,
     HARDFORK_617_TIME, 190001, HARDFORK_620_TIME, 200001, HARDFORK_622_TIME, 205001,
     300000}

\* Seconds from head_block_time to the advanced next_maintenance_time: a
\* whole interval for a block on the boundary, less for a later block, and
\* the shifted time of HARDFORK_616_MAINTENANCE_CHANGE_TIME
TailAdvances(now) ==
    {3600, 3400} \cup (IF now = HARDFORK_616_MAINTENANCE_CHANGE_TIME THEN {-450} ELSE {})

\* Records of a history table dated around one and two days before now
HistoryBefore(now) ==
    <<[id |-> 1, time |-> Max(0, now - 2 * SecondsPerDay - 1)],
      [id |-> 2, time |-> Max(0, now - 2 * SecondsPerDay)],
      [id |-> 3, time |-> Max(0, now - SecondsPerDay - 1)],
      [id |-> 4, time |-> Max(0, now - SecondsPerDay)],
      [id |-> 5, time |-> now - 10]>>

\* Funds that end at now, a second before now and later, enabled or not
FundsAt(now) ==
    <<[enabled |-> TRUE, datetime_end |-> now, processed |-> 0, finished |-> 0],
      [enabled |-> TRUE, datetime_end |-> now - 1, processed |-> 0, finished |-> 0],
      [enabled |-> FALSE, datetime_end |-> now + 5000, processed |-> 0, finished |-> 0],
      [enabled |-> TRUE, datetime_end |-> now + 5000, processed |-> 0, finished |-> 0],
      [enabled |-> FALSE, datetime_end |-> now - 5000, processed |-> 0, finished |-> 0]>>

\* Cheques that expire before, at and after the end of the last interval,
\* created (time) around one and two days before now; failing are those
\* whose reversal raises an assert_exception
ChequesAt(now, last_end, failing) ==
    [c \in 1..5 |->
        [id |-> c,
         status |-> IF c = 4 THEN "used" ELSE "new",
         drawer |-> IF c \in {2, 4} THEN 2 ELSE 1,
         expiration |-> CASE c = 1 -> last_end - 1000
                          [] c = 2 -> last_end
                          [] c = 3 -> last_end + 1
                          [] c = 4 -> last_end - 1000
                          [] c = 5 -> last_end - 1,
         remaining_amount |-> 10 * c + 1,
         time |-> HistoryBefore(now)[c].time,
         reverse_fails |-> c \in failing]]

TailStores ==
    { [Store([fees |-> 40, witness_budget |-> 25, reserve |-> 399000000,
              balance |-> DefaultBalance, fba |-> NoFba,
              chain |-> [time |-> now, head_block_number |-> 6,
                         next_maintenance_time |-> now + advance,
                         last_budget_time |-> now - 3500],
              parameters |-> Parameters(3600, 2, 50000),
              pending |-> <<>>, next_available_vote_id |-> 9,
              min_witness_count |-> 1, accounts |-> DefaultAccounts,
              witnesses |-> Witnesses(3, <<0, 1, 2>>), committee |-> Committee(2, 3),
              workers |-> Workers(<<"refund", "vesting">>, 5),
              env |-> Env({0}, FALSE, 0)])
         EXCEPT !.funds = FundsAt(now),
                !.cheques = ChequesAt(now, now + advance - 3600, failing),
                !.history_size = days,
                !.operation_history = HistoryBefore(now),
                !.account_transaction_history = HistoryBefore(now),
                !.fund_transaction_history = HistoryBefore(now),
                !.blind_transfer2 = HistoryBefore(now),
                !.account_mature_balance = {1, 2},
                !.online_info = {1}] :
        now \in TailTimes, advance \in {-450, 3400, 3600},
        days \in 0..2, failing \in {{}, {1}, {2, 5}} }

\* The pass after the modify of the dynamic global properties
InitTail ==
    /\ pc = "budget" /\ acct_i = 3
    /\ db \in TailStores /\ undo = db
    /\ db.dpo.next_maintenance_time - db.dpo.time \in TailAdvances(db.dpo.time)
    /\ db.history_size * SecondsPerDay <= db.dpo.time
    /\ next_block = [timestamp |-> db.dpo.time, block_num |-> db.dpo.head_block_number]
    /\ call = [fba_id |-> 0, shares |-> <<0, 0, 0>>]
    /\ _vote_tally_buffer = [i \in 1..9 |-> 0]
    /\ _witness_count_histogram_buffer = <<0, 0, 0, 0>>
    /\ _committee_count_histogram_buffer = <<0, 0, 0>>
    /\ _total_voting_stake = 0
    /\ last_exit = "running" /\ passes = 0

NextTail == ProcessBudget \/ ProcessFunds \/ IssueBonuses \/ ProcessCheques \/ FinishPass

SpecTail == InitTail /\ [][NextTail]_vars

(* ------------------------------------------------------------------ *)
(* Passes after HARDFORK_622_TIME over stores with funds               *)
(* ------------------------------------------------------------------ *)
\* Funds that end on the next maintenance boundary, before it, between it
\* and the following boundary, on the following boundary, and far later
FundsEnding(nmt, disabled) ==
    [f \in 1..5 |->
        [enabled |-> f \notin disabled,
         datetime_end |-> CASE f = 1 -> nmt
                            [] f = 2 -> nmt - 400
                            [] f = 3 -> nmt + 900
                            [] f = 4 -> nmt + 3600
                            [] f = 5 -> nmt + 90000,
         processed |-> 0, finished |-> 0]]

FundStores ==
    { [Store([fees |-> 40, witness_budget |-> 25, reserve |-> 399000000,
              balance |-> DefaultBalance, fba |-> NoFba,
              chain |-> [time |-> nmt - 600, head_block_number |-> 6,
                         next_maintenance_time |-> nmt,
                         last_budget_time |-> nmt - 3600],
              parameters |-> Parameters(3600, 2, 50000),
              pending |-> <<>>, next_available_vote_id |-> 9,
              min_witness_count |-> 1, accounts |-> DefaultAccounts,
              witnesses |-> Witnesses(3, <<0, 1, 2>>), committee |-> Committee(2, 3),
              workers |-> Workers(<<"refund", "vesting">>, 5),
              env |-> Env(delays, FALSE, 40)])
         EXCEPT !.funds = FundsEnding(nmt, disabled)] :
        nmt \in {HARDFORK_622_TIME + 1000, HARDFORK_622_TIME + 4150},
        delays \in {{0}, {0, 900}, {900, 1800}},
        disabled \in {{}, {3}} }

InitFunds == InitWith(FundStores)

\* The blocks and the passes that return
NextFunds == \/ ApplyBlock \/ DistributeFba \/ TallyHelper \/ AccountMaintenance
             \/ UpdateActiveWitnesses \/ UpdateActiveCommitteeMembers \/ UpdateWorkerVotes
             \/ SwitchParameters \/ AdvanceMaintenance \/ ProcessBudget
             \/ ProcessFunds \/ IssueBonuses \/ ProcessCheques \/ FinishPass

SpecFunds == InitFunds /\ [][NextFunds]_vars

\* Blocks keep being applied, and a pass that began runs to its end
SpecFundsFair == SpecFunds /\ WF_vars(NextFunds)

(* ------------------------------------------------------------------ *)
(* create_buyback_orders on its own, one iteration at a time           *)
(* ------------------------------------------------------------------ *)
\* The outcomes of selling each of the assets 0..4 on the market
Markets ==
    { <<m0, m1, m2, "partly_filled", "unfilled">> :
        m0 \in {"unfilled", "create_raises"}, m1 \in {"filled", "cancel_raises"},
        m2 \in {"filled", "partly_filled", "cancel_raises"} }

\* The rows of account 4, the buyback account of the first buyback object
HoldingsOfFour ==
    { <<>>,
      <<[owner |-> 4, asset_type |-> 0, balance |-> 10],
        [owner |-> 4, asset_type |-> 2, balance |-> 7]>>,
      <<[owner |-> 4, asset_type |-> 0, balance |-> 10],
        [owner |-> 4, asset_type |-> 2, balance |-> 7],
        [owner |-> 4, asset_type |-> 3, balance |-> 5]>>,
      <<[owner |-> 4, asset_type |-> 0, balance |-> 10],
        [owner |-> 4, asset_type |-> 2, balance |-> 0],
        [owner |-> 4, asset_type |-> 3, balance |-> 5]>> }

\* Two buyback objects with the accounts 4 and 5; the rows of account 3
\* come before theirs in the index, those of account 6 after
BuybackStores ==
    { [Store([fees |-> 40, witness_budget |-> 25, reserve |-> 399000000,
              balance |-> DefaultBalance, fba |-> NoFba,
              chain |-> MidChain(3600), parameters |-> Parameters(3600, 2, 50000),
              pending |-> <<>>, next_available_vote_id |-> 9,
              min_witness_count |-> 1, accounts |-> DefaultAccounts,
              witnesses |-> Witnesses(3, <<0, 1, 2>>), committee |-> Committee(2, 3),
              workers |-> Workers(<<"refund", "vesting">>, 5),
              env |-> Env({0}, FALSE, 0)])
         EXCEPT !.buybacks =
                    <<[asset_to_buy |-> to_buy, buyback_account |-> 4,
                       allowed_assets_valid |-> TRUE, allowed_assets |-> allowed],
                      [asset_to_buy |-> 4, buyback_account |-> 5,
                       allowed_assets_valid |-> valid, allowed_assets |-> {0, 1, 2}]>>,
                !.account_balance =
                    <<[owner |-> 3, asset_type |-> 0, balance |-> 9]>> \o four
                      \o <<[owner |-> 5, asset_type |-> 1, balance |-> 4],
                           [owner |-> 5, asset_type |-> 2, balance |-> 3],
                           [owner |-> 5, asset_type |-> 4, balance |-> 6]>>
                      \o (IF six THEN <<[owner |-> 6, asset_type |-> 1, balance |-> 8]>>
                          ELSE <<>>),
                !.market = market,
                !.limit_orders = {[id |-> 0, seller |-> 6, sell_asset |-> 1, for_sale |-> 2]},
                !.next_order_id = 1] :
        to_buy \in {1, 3}, allowed \in {{0, 2, 3, 4}, {2}}, valid \in BOOLEAN,
        four \in HoldingsOfFour, six \in BOOLEAN, market \in Markets }

\* call holds the buyback object of the for loop and the cursor next_asset
InitBuyback ==
    /\ pc = "buyback" /\ acct_i = 0
    /\ next_block = [timestamp |-> 0, block_num |-> 0]
    /\ call = [bbo |-> 1, next_asset |-> 0]
    /\ db \in BuybackStores /\ undo = db
    /\ _vote_tally_buffer = <<>>
    /\ _witness_count_histogram_buffer = <<>>
    /\ _committee_count_histogram_buffer = <<>>
    /\ _total_voting_stake = 0
    /\ last_exit = "running" /\ passes = 0

\* The head of the for loop: the next buyback object, skipped when its
\* account has no allowed_assets
NextBuybackObject ==
    /\ pc = "buyback" /\ call.bbo <= Len(db.buybacks)
    /\ IF db.buybacks[call.bbo].allowed_assets_valid
       THEN pc' = "holdings" /\ call' = [call EXCEPT !.next_asset = 0]
       ELSE pc' = pc /\ call' = [bbo |-> call.bbo + 1, next_asset |-> 0]
    /\ UNCHANGED <<acct_i, next_block, db, undo, buffers, last_exit, passes>>

\* One iteration of the while( true ) loop
BuybackIteration ==
    /\ pc = "holdings"
    /\ \E step \in {buyback_iteration(db, call.bbo, call.next_asset)} :
          /\ db' = step.d
          /\ IF step.more
             THEN pc' = pc /\ call' = [call EXCEPT !.next_asset = step.next_asset]
             ELSE pc' = "buyback" /\ call' = [bbo |-> call.bbo + 1, next_asset |-> 0]
    /\ UNCHANGED <<acct_i, next_block, undo, buffers, last_exit, passes>>

\* The return of create_buyback_orders
BuybackReturn ==
    /\ pc = "buyback" /\ call.bbo > Len(db.buybacks)
    /\ pc' = "bought" /\ last_exit' = "returned"
    /\ UNCHANGED <<acct_i, next_block, call, db, undo, buffers, passes>>

NextBuyback == NextBuybackObject \/ BuybackIteration \/ BuybackReturn

SpecBuyback == InitBuyback /\ [][NextBuyback]_vars

\* The loops run on: nothing outside create_buyback_orders can stop them
SpecBuybackFair == SpecBuyback /\ WF_vars(NextBuyback)

(* ------------------------------------------------------------------ *)
(* initialize_budget_record on its own                                 *)
(* ------------------------------------------------------------------ *)
\* Stores with a small and a large reserve, a budget dt seconds ago
\* (dt = 0: no budget yet)
RecordStores ==
    { Store([fees |-> money[1], witness_budget |-> money[2], reserve |-> reserve,
             balance |-> DefaultBalance, fba |-> NoFba,
             chain |-> [time |-> 20000, head_block_number |-> 9,
                        next_maintenance_time |-> 21600,
                        last_budget_time |-> IF dt = 0 THEN 0 ELSE 20000 - dt],
             parameters |-> Parameters(3600, 2, 50000),
             pending |-> <<>>, next_available_vote_id |-> 9,
             min_witness_count |-> 1, accounts |-> DefaultAccounts,
             witnesses |-> Witnesses(3, <<0, 1, 2>>), committee |-> Committee(2, 3),
             workers |-> Workers(<<"refund", "vesting">>, 5),
             env |-> Env({0}, FALSE, 0)]) :
        money \in {<<0, 0>>, <<1, 0>>, <<40, 25>>},
        reserve \in {0, 1, 2, 1000, 70000, 123456789, 399000000},
        dt \in {0, 1, 5, 3500, 3600, 9600} }

InitRecord == InitWith(RecordStores)

\* One call of initialize_budget_record( now, rec )
InitializeBudgetRecord ==
    /\ pc = "idle" /\ passes = 0
    /\ call' = initialize_budget_record(db, head_block_time(db))
    /\ pc' = "record" /\ last_exit' = "returned" /\ passes' = passes + 1
    /\ UNCHANGED <<acct_i, next_block, db, undo, buffers>>

NextRecord == InitializeBudgetRecord

SpecRecord == InitRecord /\ [][NextRecord]_vars
(* ------------------------------------------------------------------ *)
(* Properties of the maintenance pass                                  *)
(* ------------------------------------------------------------------ *)
LastBudgetRecord(d) == d.budget_records[Len(d.budget_records)].record

Vested(d) == SumSet(DOMAIN d.vesting, d.vesting)

\* What the budget record says was paid to workers
PaidToWorkers(rec) == rec.worker_budget - rec.leftover_worker_funds

\* C1 as stated: process_budget leaves current_supply at its value on entry
\* plus rec.supply_delta, supply_delta being witness_budget + worker_budget -
\* leftover_worker_funds - accumulated_fees - dpo.witness_budget of the entry
\* state; accumulated_fees is 0 and dpo.witness_budget is the new budget.
C1_SupplyFollowsDeltaFromEntry ==
    [][(pc = "budget" /\ pc' = "tail") =>
         LET rec == LastBudgetRecord(db')
         IN /\ db'.core_dd.current_supply = db.core_dd.current_supply + rec.supply_delta
            /\ rec.supply_delta = rec.witness_budget + PaidToWorkers(rec)
                                    - db.core_dd.accumulated_fees - db.dpo.witness_budget
            /\ db'.core_dd.accumulated_fees = 0
            /\ db'.dpo.witness_budget = rec.witness_budget]_vars

\* C1 amended: process_budget adds rec.supply_delta to the current_supply that
\* pay_workers leaves, which is the value on entry less the pay of the
\* workers that return their pay to the reserve (the pay that did not go to
\* a vesting balance); the rest is as stated.
C1_SupplyFollowsDeltaAfterPayout ==
    [][(pc = "budget" /\ pc' = "tail") =>
         LET rec == LastBudgetRecord(db')
             returned == PaidToWorkers(rec) - (Vested(db') - Vested(db))
         IN /\ db'.core_dd.current_supply =
                  db.core_dd.current_supply - returned + rec.supply_delta
            /\ returned >= 0
            /\ rec.supply_delta = rec.witness_budget + PaidToWorkers(rec)
                                    - db.core_dd.accumulated_fees - db.dpo.witness_budget
            /\ db'.core_dd.accumulated_fees = 0
            /\ db'.dpo.witness_budget = rec.witness_budget]_vars

\* A budget that paid workers, with fees and an unspent witness budget on entry
C1_Witness ==
    /\ pc = "tail"
    /\ PaidToWorkers(LastBudgetRecord(db)) > 0
    /\ LastBudgetRecord(db).from_accumulated_fees > 0
    /\ LastBudgetRecord(db).from_unused_witness_budget > 0
    /\ LastBudgetRecord(db).witness_budget > 0

\* The sum the conservation claim names: balances, reserve, fees, witness budget
ClaimedSupply(d) ==
    SumSet(DOMAIN d.balance, d.balance) + reserved(d)
      + d.core_dd.accumulated_fees + d.dpo.witness_budget

C3_AdvanceIsWholeIntervals ==
    [][(pc = "advance" /\ pc' = "budget") =>
         LET interval == db.gpo.parameters.maintenance_interval
             advance == db'.dpo.next_maintenance_time - db.dpo.next_maintenance_time
         IN /\ db'.dpo.next_maintenance_time > head_block_time(db)
            /\ advance > 0
            /\ advance % interval = 0]_vars

\* C7: the three scratch buffers are empty whenever perform_chain_maintenance
\* is not running, however the last pass ended.
C7_BuffersEmptyOutsidePass ==
    pc = "idle" => /\ _vote_tally_buffer = <<>>
                   /\ _witness_count_histogram_buffer = <<>>
                   /\ _committee_count_histogram_buffer = <<>>

\* C9: once every account is tallied, neither count histogram sums to more
\* than _total_voting_stake.
C9_HistogramsWithinStake ==
    pc = "witnesses" =>
        /\ SumSeq(_witness_count_histogram_buffer) <= _total_voting_stake
        /\ SumSeq(_committee_count_histogram_buffer) <= _total_voting_stake
(* ------------------------------------------------------------------ *)
(* Properties of the elections                                         *)
(* ------------------------------------------------------------------ *)
Legacy(d) == head_block_time(d) < HARDFORK_533_TIME

Omitted(d) == DOMAIN d.witnesses \ d.gpo.active_witnesses

\* No omitted witness has more tallied votes than a retained one
RetainedByVotes(d) ==
    \A w \in d.gpo.active_witnesses, o \in Omitted(d) :
        d.witnesses[o].total_votes <= d.witnesses[w].total_votes

\* C4 as stated: after update_active_witnesses the active_witnesses are odd
\* in number, at least min_witness_count, and no omitted witness has more
\* tallied votes than a retained one.
C4_OddAndAtLeastMin ==
    pc = "committee" =>
        /\ Cardinality(db.gpo.active_witnesses) % 2 = 1
        /\ Cardinality(db.gpo.active_witnesses) >= db.cpo.min_witness_count
        /\ RetainedByVotes(db)

\* C4 amended: the active_witnesses are never more than the witness objects;
\* when some witness is omitted their number is odd and at least
\* min_witness_count, when there are min_witness_count witness objects their
\* number is at least min_witness_count, and no omitted witness has more
\* tallied votes than a retained one.
C4_OddAndAtLeastMinWhenEnough ==
    pc = "committee" =>
        LET k == Cardinality(db.gpo.active_witnesses)
            n == Cardinality(DOMAIN db.witnesses)
        IN /\ k <= n
           /\ k < n => (k % 2 = 1 /\ k >= db.cpo.min_witness_count)
           /\ n >= db.cpo.min_witness_count => k >= db.cpo.min_witness_count
           /\ RetainedByVotes(db)

\* More witnesses than the minimum elected by the stake that asks for them,
\* one with fewer votes left out
C4_Witness ==
    /\ pc = "committee"
    /\ Cardinality(db.gpo.active_witnesses) > db.cpo.min_witness_count
    /\ Cardinality(db.gpo.active_witnesses) % 2 = 1
    /\ \E w \in db.gpo.active_witnesses, o \in Omitted(db) :
          db.witnesses[o].total_votes < db.witnesses[w].total_votes

\* The order sort_votable_objects gives all witness objects
Ranking(d, tally) ==
    sort_votable_objects(d.witnesses, tally, Cardinality(DOMAIN d.witnesses))

\* C5 as stated: of two witnesses with equal tallies the one with the lower
\* object id is ranked first and is retained in preference to the other.
C5_TiesByObjectId ==
    pc = "committee" =>
        LET r == Ranking(db, _vote_tally_buffer)
        IN /\ \A i, j \in 1..Len(r) :
                 (i < j /\ db.witnesses[r[i]].total_votes = db.witnesses[r[j]].total_votes)
                 => r[i] < r[j]
           /\ \A w \in db.gpo.active_witnesses, o \in Omitted(db) :
                 db.witnesses[w].total_votes = db.witnesses[o].total_votes => w < o

\* C5 amended: of two witnesses with equal tallies the one with the lower
\* vote_id is ranked first and is retained in preference to the other.
C5_TiesByVoteId ==
    pc = "committee" =>
        LET r == Ranking(db, _vote_tally_buffer)
        IN /\ \A i, j \in 1..Len(r) :
                 (i < j /\ db.witnesses[r[i]].total_votes = db.witnesses[r[j]].total_votes)
                 => db.witnesses[r[i]].vote_id < db.witnesses[r[j]].vote_id
           /\ \A w \in db.gpo.active_witnesses, o \in Omitted(db) :
                 db.witnesses[w].total_votes = db.witnesses[o].total_votes
                 => db.witnesses[w].vote_id < db.witnesses[o].vote_id

\* A tie with votes between a retained witness and an omitted one of lower
\* object id
C5_Witness ==
    /\ pc = "committee"
    /\ \E w \in db.gpo.active_witnesses, o \in Omitted(db) :
          /\ db.witnesses[w].total_votes = db.witnesses[o].total_votes
          /\ db.witnesses[w].total_votes > 0
          /\ o < w

AuthorityWellFormed(a) ==
    LET sum == SumSet(DOMAIN a.account_auths, a.account_auths)
    IN /\ \A k \in DOMAIN a.account_auths :
             a.account_auths[k] >= 1 /\ a.account_auths[k] <= 65535
       /\ a.weight_threshold = (sum \div 2) + 1
       /\ sum >= a.weight_threshold

C10_ColdStart ==
    (/\ pc = "committee" /\ passes = 0
     /\ db.cpo.min_witness_count = 11
     /\ Cardinality(DOMAIN db.witnesses) >= 11
     /\ \A a \in DOMAIN db.accounts : db.accounts[a].options.votes = {})
    => /\ Cardinality(db.gpo.active_witnesses) = 11
       /\ Legacy(db) =>
            /\ db.witness_active.weight_threshold = 6
            /\ DOMAIN db.witness_active.account_auths =
                  {db.witnesses[w].witness_account : w \in db.gpo.active_witnesses}
            /\ \A k \in DOMAIN db.witness_active.account_auths :
                  db.witness_active.account_auths[k] = 1

\* Twelve witness objects, no votes, the authority of the old branch written
C10_Witness ==
    /\ pc = "committee" /\ passes = 0 /\ Legacy(db)
    /\ db.cpo.min_witness_count = 11
    /\ Cardinality(DOMAIN db.witnesses) = 12
    /\ \A a \in DOMAIN db.accounts : db.accounts[a].options.votes = {}
    /\ Cardinality(db.gpo.active_witnesses) = 11

(* ------------------------------------------------------------------ *)
(* Properties of split_fba_balance                                     *)
(* ------------------------------------------------------------------ *)
\* What an account holds after the call over what it held before
Credited(account) == db.balance[account] - undo.balance[account]

\* C8: for a configured pool holding A > 0 and shares that sum to 100%,
\* buyback = floor(A * buyback_pct / 100%), issuer = floor(A * issuer_pct /
\* 100%) and network = A - buyback - issuer; current_supply falls by
\* network, the buyback account and the issuer are credited buyback and
\* issuer, the pool is left at 0; 1000 at 20/60/20 gives 600/200/200.
C8_FbaSplit ==
    (/\ pc = "split" /\ last_exit = "returned"
     /\ undo.fba[call.fba_id].is_configured
     /\ undo.fba[call.fba_id].accumulated_fba_fees > 0)
    => LET fba == undo.fba[call.fba_id]
           A == fba.accumulated_fba_fees
           buyback == (A * call.shares[2]) \div GRAPHENE_100_PERCENT
           issuer == (A * call.shares[3]) \div GRAPHENE_100_PERCENT
           network == A - buyback - issuer
       IN /\ network >= 0
          /\ db.core_dd.current_supply = undo.core_dd.current_supply - network
          /\ IF fba.buyback_account = fba.issuer
             THEN Credited(fba.issuer) = buyback + issuer
             ELSE /\ Credited(fba.buyback_account) = buyback
                  /\ Credited(fba.issuer) = issuer
          /\ \A a \in DOMAIN db.balance \ {fba.buyback_account, fba.issuer} :
                Credited(a) = 0
          /\ db.fba[call.fba_id].accumulated_fba_fees = 0
          /\ (A = 1000 /\ call.shares[2] = 6000 /\ call.shares[3] = 2000)
               => (buyback = 600 /\ issuer = 200 /\ network = 200)

\* The pool of 1000 split 20/60/20 between two accounts
C8_Witness ==
    /\ pc = "split" /\ last_exit = "returned"
    /\ undo.fba[call.fba_id].is_configured
    /\ undo.fba[call.fba_id].accumulated_fba_fees = 1000
    /\ call.shares = <<2000, 6000, 2000>>
    /\ Credited(1) = 600 /\ Credited(2) = 200
    /\ db.core_dd.current_supply = undo.core_dd.current_supply - 200
(* ------------------------------------------------------------------ *)
(* Properties of the budget                                            *)
(* ------------------------------------------------------------------ *)
\* initialize_budget_record returns before it computes a budget
FirstBudget(d) ==
    d.dpo.last_budget_time = 0 \/ head_block_time(d) <= d.dpo.last_budget_time

\* C11 as stated: with last_budget_time the epoch (or not before now) the
\* record has time_since_last_budget, total_budget, witness_budget,
\* worker_budget and supply_delta all 0 and process_budget leaves
\* current_supply as it was, whatever the fees and the old witness_budget.
C11_FirstBudgetChangesNothing ==
    [][(pc = "budget" /\ pc' = "tail" /\ FirstBudget(db)) =>
         LET rec == LastBudgetRecord(db')
         IN /\ rec.time_since_last_budget = 0 /\ rec.total_budget = 0
            /\ rec.witness_budget = 0 /\ rec.worker_budget = 0
            /\ rec.supply_delta = 0
            /\ db'.core_dd.current_supply = db.core_dd.current_supply]_vars

\* C11 amended: then the record has time_since_last_budget, total_budget,
\* witness_budget and worker_budget 0, and its supply_delta is minus the
\* accumulated_fees and the old witness_budget, by which current_supply
\* falls: the supply is unchanged only when both are 0.
C11_FirstBudgetReturnsFees ==
    [][(pc = "budget" /\ pc' = "tail" /\ FirstBudget(db)) =>
         LET rec == LastBudgetRecord(db')
         IN /\ Len(db'.budget_records) = Len(db.budget_records) + 1
            /\ rec.time_since_last_budget = 0 /\ rec.total_budget = 0
            /\ rec.witness_budget = 0 /\ rec.worker_budget = 0
            /\ rec.leftover_worker_funds = 0
            /\ rec.supply_delta = 0 - db.core_dd.accumulated_fees - db.dpo.witness_budget
            /\ db'.core_dd.current_supply =
                 db.core_dd.current_supply - db.core_dd.accumulated_fees
                   - db.dpo.witness_budget
            /\ db'.dpo.witness_budget = 0 /\ db'.core_dd.accumulated_fees = 0]_vars

\* The first budget of a chain that holds fees and an unspent witness budget
C11_Witness ==
    /\ pc = "tail"
    /\ undo.dpo.last_budget_time = 0
    /\ LastBudgetRecord(db).time_since_last_budget = 0
    /\ LastBudgetRecord(db).from_accumulated_fees > 0
    /\ LastBudgetRecord(db).from_unused_witness_budget > 0
    /\ LastBudgetRecord(db).supply_delta < 0
(* ------------------------------------------------------------------ *)
(* Properties of pay_workers                                           *)
(* ------------------------------------------------------------------ *)
\* The pay of the first n payments
RECURSIVE SumPay(_, _)
SumPay(payments, n) == IF n = 0 THEN 0 ELSE payments[n].pay + SumPay(payments, n - 1)

\* What worker w asks for the seconds since last_budget_time in store d
Prorated(d, w) ==
    LET dt == head_block_time(d) - d.dpo.last_budget_time
    IN IF dt = 86400 THEN d.workers[w].daily_pay
       ELSE (d.workers[w].daily_pay * dt) \div 86400

\* C12: a paid worker requests daily_pay when head_block_time -
\* last_budget_time is one day and floor(daily_pay * dt / 86400) otherwise
\* (100 a day over 43200 seconds is 50); it receives the lesser of the
\* budget that remains and its request, and the budget left after the loop
\* is the initial budget less all payments, and not negative.
C12_WorkerPay ==
    pc = "paid" =>
        LET p == db.payments
        IN /\ \A i \in 1..Len(p) :
                 /\ p[i].pay = Min(call.budget - SumPay(p, i - 1), Prorated(undo, p[i].worker))
                 /\ (/\ undo.workers[p[i].worker].daily_pay = 100
                     /\ head_block_time(undo) - undo.dpo.last_budget_time = 43200
                     /\ call.budget - SumPay(p, i - 1) >= 50) => p[i].pay = 50
           /\ call.leftover = call.budget - SumPay(p, Len(p))
           /\ call.leftover >= 0
           /\ \A w \in DOMAIN db.workers :
                 db.workers[w].worker = "vesting" =>
                    db.vesting[w] - undo.vesting[w] =
                       SumSet({i \in 1..Len(p) : p[i].worker = w},
                              [i \in 1..Len(p) |-> p[i].pay])
           /\ undo.core_dd.current_supply - db.core_dd.current_supply =
                 SumSet({i \in 1..Len(p) : db.workers[p[i].worker].worker # "vesting"},
                        [i \in 1..Len(p) |-> p[i].pay])

\* 100 a day over half a day paid as 50, and a later worker cut to the
\* budget that was left
C12_Witness ==
    /\ pc = "paid"
    /\ head_block_time(undo) - undo.dpo.last_budget_time = 43200
    /\ Len(db.payments) >= 2
    /\ \E i \in 1..Len(db.payments) :
          db.payments[i].pay = 50 /\ undo.workers[db.payments[i].worker].daily_pay = 100
    /\ \E i \in 1..Len(db.payments) :
          /\ db.payments[i].pay < Prorated(undo, db.payments[i].worker)
          /\ db.payments[i].pay > 0
    /\ call.leftover = 0
(* ------------------------------------------------------------------ *)
(* Properties of the next maintenance time                             *)
(* ------------------------------------------------------------------ *)
\* C13: the pass of a block other than block 1 at
\* HARDFORK_616_MAINTENANCE_CHANGE_TIME with y = 0 and an interval of 3600
\* advances next_maintenance_time by 1350; every other pass advances it by
\* (y + 1) intervals; and no pass of the chain before the shifted one was
\* at that time or later, so the chain has at most one shifted pass.
C13_ShiftOnce ==
    [][(pc = "advance" /\ pc' = "budget") =>
         LET interval == db.gpo.parameters.maintenance_interval
             advance == db'.dpo.next_maintenance_time - db.dpo.next_maintenance_time
             y == (head_block_time(db) - db.dpo.next_maintenance_time) \div interval
             shifted == /\ next_block.block_num # 1
                        /\ head_block_time(db) = HARDFORK_616_MAINTENANCE_CHANGE_TIME
         IN /\ (shifted /\ y = 0 /\ interval = 3600) => advance = 1350
            /\ ~shifted => advance = (y + 1) * interval
            /\ shifted =>
                 \A i \in 1..Len(db.budget_records) :
                    db.budget_records[i].time < HARDFORK_616_MAINTENANCE_CHANGE_TIME]_vars

\* The shifted pass with y = 0 and an interval of 3600
C13_Witness ==
    /\ pc = "budget"
    /\ next_block.block_num # 1
    /\ head_block_time(db) = HARDFORK_616_MAINTENANCE_CHANGE_TIME
    /\ db.gpo.parameters.maintenance_interval = 3600
    /\ db.dpo.next_maintenance_time - undo.dpo.next_maintenance_time = 1350
BudgetReserve(d) == reserved(d) + d.core_dd.accumulated_fees + d.dpo.witness_budget

\* C15: for dt > 0 total_budget is the lesser of
\* ceil(reserve * dt * CORE_ASSET_CYCLE_RATE / 2^CYCLE_RATE_BITS) and
\* reserve = core.reserved + accumulated_fees + dpo.witness_budget: it is at
\* most reserve, and at least 1 when reserve is.  The quotient is stated
\* exactly where the product is below 2^31 (it is then 0 or 1), and between
\* the quotients of reserve rounded down and up to a multiple of 2^17
\* elsewhere.
C15_TotalBudget ==
    (pc = "record" /\ db.dpo.last_budget_time # 0
       /\ head_block_time(db) > db.dpo.last_budget_time)
    => LET reserve == BudgetReserve(db)
           dt == head_block_time(db) - db.dpo.last_budget_time
           rate == dt * GRAPHENE_CORE_ASSET_CYCLE_RATE
           low == ((reserve \div 131072) * rate) \div 32768
           high == (((reserve \div 131072) + 1) * rate) \div 32768 + 1
       IN /\ call.time_since_last_budget = dt
          /\ call.from_initial_reserve = reserved(db)
          /\ call.total_budget <= reserve
          /\ reserve >= 1 => call.total_budget >= 1
          /\ reserve < 131072 \div GRAPHENE_CORE_ASSET_CYCLE_RATE =>
                call.total_budget = Min(IF reserve * rate > 0 THEN 1 ELSE 0, reserve)
          /\ IF call.total_budget < reserve
             THEN low <= call.total_budget /\ call.total_budget <= high
             ELSE reserve <= high

\* A reserve of 1 spent whole, after one second
C15_Witness ==
    /\ pc = "record"
    /\ BudgetReserve(db) = 1
    /\ head_block_time(db) - db.dpo.last_budget_time = 1
    /\ call.total_budget = 1
\* ceil( a / b ) for b > 0
CeilDiv(a, b) == -((-a) \div b)

\* C16: every budget record has witness_budget = min(total_budget,
\* witness_pay_per_block * ceil(time_to_maint / block_interval)), allocates at
\* most total_budget to witnesses and workers together, and leaves between 0
\* and worker_budget to the workers' leftover.
C16_BudgetRecordShape ==
    [][(pc = "budget" /\ pc' = "tail")
       => LET rec == LastBudgetRecord(db')
              p == db.gpo.parameters
              time_to_maint == db.dpo.next_maintenance_time - head_block_time(db)
          IN /\ rec.witness_budget =
                   Min(rec.total_budget,
                       p.witness_pay_per_block * CeilDiv(time_to_maint, p.block_interval))
             /\ rec.witness_budget + rec.worker_budget <= rec.total_budget
             /\ 0 <= rec.leftover_worker_funds
             /\ rec.leftover_worker_funds <= rec.worker_budget]_vars
\* Votes for less votes against of worker w in store d
NetStake(d, w) == d.workers[w].total_votes_for - d.workers[w].total_votes_against

\* The workers pay_workers may pay in store d
Eligible(d) ==
    {w \in DOMAIN d.workers :
        /\ d.workers[w].work_begin_date <= d.dpo.time
        /\ d.dpo.time <= d.workers[w].work_end_date
        /\ NetStake(d, w) > 0}

\* Worker a is paid before worker b
Preferred(d, a, b) ==
    \/ NetStake(d, a) > NetStake(d, b)
    \/ NetStake(d, a) = NetStake(d, b) /\ a < b

\* C17: pay_workers pays only workers active at head_block_time with
\* positive approving stake, each once, in the order of approving stake
\* descending and worker id ascending; no worker is paid before an eligible
\* worker that precedes it, and once a worker receives less than its
\* requested pay no later worker receives anything.
C17_PayOrder ==
    pc = "paid" =>
        LET p == db.payments
            paid == {p[i].worker : i \in 1..Len(p)}
        IN /\ paid \subseteq Eligible(undo)
           /\ \A i, j \in 1..Len(p) :
                 i < j => Preferred(undo, p[i].worker, p[j].worker)
           /\ \A j \in 1..Len(p) : \A w \in Eligible(undo) :
                 Preferred(undo, w, p[j].worker) => \E i \in 1..(j - 1) : p[i].worker = w
           /\ \A i \in 1..Len(p) :
                 p[i].pay < Prorated(undo, p[i].worker) => i = Len(p)
           /\ \A w \in DOMAIN db.workers \ paid : db.vesting[w] = undo.vesting[w]
           /\ paid = {} => db.core_dd.current_supply = undo.core_dd.current_supply

\* Two workers of equal stake paid in the order of their ids, the second
\* less than it asked, and a third eligible worker left unpaid
C17_Witness ==
    /\ pc = "paid"
    /\ Len(db.payments) = 2
    /\ NetStake(undo, db.payments[1].worker) = NetStake(undo, db.payments[2].worker)
    /\ db.payments[1].worker < db.payments[2].worker
    /\ db.payments[2].pay < Prorated(undo, db.payments[2].worker)
    /\ \E w \in Eligible(undo) : \A i \in 1..2 : db.payments[i].worker # w
(* ------------------------------------------------------------------ *)
(* Properties of the vote tally                                        *)
(* ------------------------------------------------------------------ *)
\* The account the tally helper is about to visit
Visited == db.accounts[acct_i + 1]

\* The account whose options the visited account votes with
Opinion ==
    IF Visited.options.voting_account = 0 THEN Visited
    ELSE db.accounts[Visited.options.voting_account]

\* The visited account's core in orders, cashback balance and core balance
OwnStake == Visited.total_core_in_orders + Visited.cashback_vb + db.balance[acct_i + 1]

\* The visited account is tallied
Counted == db.gpo.parameters.count_non_member_votes \/ Visited.is_member

\* hist with stake more in bucket offset (from 0)
Raised(hist, offset, stake) ==
    [i \in 1..Len(hist) |-> IF i = offset + 1 THEN hist[i] + stake ELSE hist[i]]

\* C18: an opinion account whose num_witness (num_committee) exceeds
\* maximum_witness_count (maximum_committee_count) is clipped to the cap: the
\* stake is added to the highest bucket of the histogram.
C18_OverCapClipped ==
    [][(pc = "accounts" /\ Counted)
       => /\ Opinion.options.num_witness > db.gpo.parameters.maximum_witness_count
             => _witness_count_histogram_buffer' =
                   Raised(_witness_count_histogram_buffer,
                          Len(_witness_count_histogram_buffer) - 1, OwnStake)
          /\ Opinion.options.num_committee > db.gpo.parameters.maximum_committee_count
             => _committee_count_histogram_buffer' =
                   Raised(_committee_count_histogram_buffer,
                          Len(_committee_count_histogram_buffer) - 1, OwnStake)]_vars
\* C19: a vote id of the opinion account whose instance is not below the size
\* of _vote_tally_buffer is ignored: no bucket changes for it and nothing is
\* raised; every vote id in range receives exactly the voting stake (core in
\* orders + cashback vesting balance + core balance of the stake account),
\* the count histograms receive it at num / 2 for a num within the maximum,
\* and _total_voting_stake grows by it.
C19_IllegalOffsetIgnored ==
    [][(pc = "accounts" /\ Counted)
       => /\ Len(_vote_tally_buffer') = Len(_vote_tally_buffer)
          /\ \A offset \in 0..(Len(_vote_tally_buffer) - 1) :
                _vote_tally_buffer'[offset + 1] =
                   _vote_tally_buffer[offset + 1]
                      + (IF offset \in Opinion.options.votes THEN OwnStake ELSE 0)
          /\ Opinion.options.num_witness <= db.gpo.parameters.maximum_witness_count
             => _witness_count_histogram_buffer' =
                   Raised(_witness_count_histogram_buffer,
                          Opinion.options.num_witness \div 2, OwnStake)
          /\ Opinion.options.num_committee <= db.gpo.parameters.maximum_committee_count
             => _committee_count_histogram_buffer' =
                   Raised(_committee_count_histogram_buffer,
                          Opinion.options.num_committee \div 2, OwnStake)
          /\ _total_voting_stake' = _total_voting_stake + OwnStake
          /\ pc' \in {"accounts", "witnesses"}]_vars

\* Account 1 voted for 0, 9 and 12 with 9 vote ids allocated: bucket 0 holds
\* its stake, the last bucket holds nothing, the histogram and the total
\* hold the stake
C19_Witness ==
    /\ pc = "accounts" /\ acct_i = 1
    /\ db.accounts[1].options.votes = {0, 9, 12}
    /\ db.accounts[1].options.num_witness = 3
    /\ Len(_vote_tally_buffer) = 9
    /\ _vote_tally_buffer[1] = 1000
    /\ _vote_tally_buffer[9] = 0
    /\ _witness_count_histogram_buffer[2] = 1000
    /\ _total_voting_stake = 1000

\* C20: with count_non_member_votes false a stake account that is not a
\* member changes none of the buffers nor the total, whether it votes through
\* a member or a member votes through it; for a member the stake counted is
\* its own and the votes and counts applied are those of the account it
\* votes through.
C20_NonMembersNotCounted ==
    [][pc = "accounts"
       => /\ (~db.gpo.parameters.count_non_member_votes /\ ~Visited.is_member)
             => UNCHANGED buffers
          /\ (Visited.is_member /\ Visited.options.voting_account # 0)
             => LET proxy == db.accounts[Visited.options.voting_account].options
                    own == Visited.total_core_in_orders + Visited.cashback_vb
                              + db.balance[acct_i + 1]
                IN /\ \A offset \in 0..(Len(_vote_tally_buffer) - 1) :
                         _vote_tally_buffer'[offset + 1] =
                            _vote_tally_buffer[offset + 1]
                               + (IF offset \in proxy.votes THEN own ELSE 0)
                   /\ proxy.num_committee <= db.gpo.parameters.maximum_committee_count
                      => _committee_count_histogram_buffer' =
                            Raised(_committee_count_histogram_buffer,
                                   proxy.num_committee \div 2, own)
                   /\ _total_voting_stake' = _total_voting_stake + own]_vars

\* Member 2 voted through account 3, which is not a member and votes through
\* member 1: bucket 4 holds the stake of account 2 alone, and the total is
\* the stake of the two members
C20_Witness ==
    /\ pc = "tallied"
    /\ ~db.gpo.parameters.count_non_member_votes
    /\ db.accounts[2].options.voting_account = 3
    /\ db.accounts[3].options.voting_account = 1
    /\ ~db.accounts[3].is_member
    /\ db.accounts[1].options.votes = {0, 8}
    /\ _vote_tally_buffer[5] = 525
    /\ _vote_tally_buffer[1] = 1000
    /\ _vote_tally_buffer[3] = 0
    /\ _total_voting_stake = 1525
(* ------------------------------------------------------------------ *)
(* Properties of the derived counts and of the committee               *)
(* ------------------------------------------------------------------ *)
\* (total - bucket0) / 2 in unsigned 64 bits: above any stake when bucket0
\* exceeds total
HalfOfVotingStake(total, bucket0) ==
    IF total >= bucket0 THEN (total - bucket0) \div 2 ELSE AboveSupply

\* The stake in buckets 1..count of a histogram
StakeUpTo(hist, count) == SumSet(2..(count + 1), hist)

\* count = 0; tally = 0; while count < size-1 and tally <= stake_target:
\* count += 1; tally += histogram[count]
ReferenceCount(hist, stake_target) ==
    CHOOSE count \in 0..(Len(hist) - 1) :
        /\ count = Len(hist) - 1 \/ StakeUpTo(hist, count) > stake_target
        /\ \A c \in 0..(count - 1) : StakeUpTo(hist, c) <= stake_target

\* The number elected for a derived count
ElectedFor(count, minimum, objects) == Min(Max(2 * count + 1, minimum), objects)

\* C21: the witness count of update_active_witnesses is the count of the
\* reference procedure for stake_target = (total_voting_stake -
\* histogram[0]) / 2, for every histogram and total.
C21_CountOfReference ==
    pc = "committee" =>
        Cardinality(db.gpo.active_witnesses) =
            ElectedFor(ReferenceCount(_witness_count_histogram_buffer,
                           HalfOfVotingStake(_total_voting_stake,
                                             _witness_count_histogram_buffer[1])),
                       db.cpo.min_witness_count, Cardinality(DOMAIN db.witnesses))

\* C21 amended: the witness count is 0 when stake_target is 0, and the count
\* of the reference procedure when stake_target is positive.
C21_CountOfReferenceForPositiveTarget ==
    pc = "committee" =>
        LET stake_target == HalfOfVotingStake(_total_voting_stake,
                                              _witness_count_histogram_buffer[1])
        IN Cardinality(db.gpo.active_witnesses) =
              ElectedFor(IF stake_target > 0
                         THEN ReferenceCount(_witness_count_histogram_buffer, stake_target)
                         ELSE 0,
                         db.cpo.min_witness_count, Cardinality(DOMAIN db.witnesses))

\* A total of 1 with empty buckets: one witness elected where the reference
\* procedure walks to the last bucket; and a total of 7, target 3, walked
\* past a bucket of exactly 3
C21_Witness ==
    /\ pc = "committee"
    /\ Cardinality(DOMAIN db.witnesses) = 8
    /\ \/ /\ _total_voting_stake = 1
          /\ _witness_count_histogram_buffer = <<0, 0, 0, 0>>
          /\ Cardinality(db.gpo.active_witnesses) = 1
       \/ /\ _total_voting_stake = 7
          /\ _witness_count_histogram_buffer = <<0, 3, 3, 0>>
          /\ Cardinality(db.gpo.active_witnesses) = 5
\* C22: update_active_committee_members takes its stake_target from bucket 0
\* of the witness histogram, (_total_voting_stake -
\* _witness_count_histogram_buffer[0]) / 2, walks the buckets of the
\* committee histogram, and elects max(2 * count + 1,
\* min_committee_member_count) members, or all committee member objects
\* when they are fewer.
C22_CommitteeCountOfWitnessBucket ==
    pc = "workers" =>
        LET stake_target == HalfOfVotingStake(_total_voting_stake,
                                              _witness_count_histogram_buffer[1])
            count == IF stake_target > 0
                     THEN ReferenceCount(_committee_count_histogram_buffer, stake_target)
                     ELSE 0
        IN Cardinality(db.gpo.active_committee_members) =
              ElectedFor(count, db.cpo.min_committee_member_count,
                         Cardinality(DOMAIN db.committee))

\* A total of 7 with 3 in bucket 0 of the committee histogram only: the
\* target is 3, not 2, and the walk passes a bucket of 3
C22_Witness ==
    /\ pc = "workers"
    /\ Cardinality(DOMAIN db.committee) = 6
    /\ _total_voting_stake = 7
    /\ _witness_count_histogram_buffer[1] = 0
    /\ _committee_count_histogram_buffer = <<3, 3, 3>>
    /\ Cardinality(db.gpo.active_committee_members) = 5

\* C23: after update_active_committee_members with a non-empty elected
\* committee the relaxed committee account's active authority is the
\* committee account's new active authority; with an empty elected committee
\* both authorities are as before and active_committee_members is empty.
C23_RelaxedCommitteeCloned ==
    [][(pc = "committee" /\ pc' = "workers")
       => /\ db'.gpo.active_committee_members # {}
             => db'.relaxed_active = db'.committee_active
          /\ db'.gpo.active_committee_members = {}
             => /\ db'.relaxed_active = db.relaxed_active
                /\ db'.committee_active = db.committee_active]_vars

\* A committee elected over authorities that differed: both now hold the
\* weights of the elected members
C23_Witness ==
    /\ pc = "workers"
    /\ undo.relaxed_active # undo.committee_active
    /\ db.gpo.active_committee_members # {}
    /\ db.committee_active # undo.committee_active
    /\ db.relaxed_active = db.committee_active
    /\ DOMAIN db.relaxed_active.account_auths =
          {db.committee[c].committee_member_account : c \in db.gpo.active_committee_members}
(* ------------------------------------------------------------------ *)
(* Properties of the switch of the parameters                          *)
(* ------------------------------------------------------------------ *)
\* C24: after a pass pending_parameters is unset; parameters are the former
\* pending parameters exactly when those were set, and otherwise the former
\* parameters with basic_fee shifted right by account_fee_scale_bitshifts *
\* (accounts_registered_this_interval / accounts_per_fee_scale).
C24_PendingParametersMoved ==
    [][/\ (pc = "parameters" /\ pc' = "advance")
          => LET p == db.gpo.parameters
                 shift == p.account_fee_scale_bitshifts *
                            (db.dpo.accounts_registered_this_interval
                                \div p.accounts_per_fee_scale)
             IN /\ db'.gpo.pending_parameters = <<>>
                /\ db'.gpo.parameters =
                      IF db.gpo.pending_parameters # <<>>
                      THEN db.gpo.pending_parameters[1]
                      ELSE [p EXCEPT !.basic_fee = p.basic_fee \div Pow2(shift)]
       /\ (/\ pc \in {"advance", "budget", "tail", "bonuses", "cheques", "entities"}
           /\ pc' \in {"budget", "tail", "bonuses", "cheques", "entities", "idle"})
          => db'.gpo = db.gpo]_vars

\* A returned pass that began with pending parameters and 25 accounts
\* registered: the parameters are the pending ones, fee of 9000 included
C24_Witness ==
    /\ pc = "idle" /\ last_exit = "returned"
    /\ undo.dpo.accounts_registered_this_interval = 25
    /\ undo.gpo.pending_parameters # <<>>
    /\ db.gpo.pending_parameters = <<>>
    /\ db.gpo.parameters = PendingParameters
    /\ db.gpo.parameters.basic_fee = 9000
\* The next_maintenance_time the pass computes under parameters p
AdvancedUnder(p) ==
    LET interval == p.maintenance_interval
        y == (db.dpo.time - db.dpo.next_maintenance_time) \div interval
    IN IF next_block.block_num = 1
       THEN ((next_block.timestamp \div interval) + 1) * interval
       ELSE IF db.dpo.time = HARDFORK_616_MAINTENANCE_CHANGE_TIME
       THEN db.dpo.next_maintenance_time + ((8 * y + 3) * interval) \div 8
       ELSE db.dpo.next_maintenance_time + (y + 1) * interval

\* Budget record rec is that of parameters p, time_to_maint seconds before
\* the next pass
BudgetedUnder(p, rec, time_to_maint) ==
    /\ rec.requested_witness_budget =
          p.witness_pay_per_block * CeilDiv(time_to_maint, p.block_interval)
    /\ rec.worker_budget =
          Min((p.worker_budget_per_day * time_to_maint) \div 86400,
              rec.total_budget - rec.witness_budget)

\* C25: in the pass that moves pending_parameters into parameters the
\* advance of next_maintenance_time and the budget use the parameters in
\* force on entry to the pass.
C25_BudgetUnderFormerParameters ==
    [][undo.gpo.pending_parameters # <<>>
       => /\ (pc = "advance" /\ pc' = "budget")
             => db'.dpo.next_maintenance_time = AdvancedUnder(undo.gpo.parameters)
          /\ (pc = "budget" /\ pc' = "tail"
                /\ db.dpo.next_maintenance_time > db.dpo.time)
             => BudgetedUnder(undo.gpo.parameters, LastBudgetRecord(db'),
                              db.dpo.next_maintenance_time - db.dpo.time)]_vars

\* C25 amended: in that pass the advance of next_maintenance_time and the
\* budget (for a next_maintenance_time after head_block_time) use the
\* parameters that were pending on entry.
C25_BudgetUnderPendingParameters ==
    [][undo.gpo.pending_parameters # <<>>
       => /\ (pc = "advance" /\ pc' = "budget")
             => db'.dpo.next_maintenance_time =
                   AdvancedUnder(undo.gpo.pending_parameters[1])
          /\ (pc = "budget" /\ pc' = "tail"
                /\ db.dpo.next_maintenance_time > db.dpo.time)
             => BudgetedUnder(undo.gpo.pending_parameters[1], LastBudgetRecord(db'),
                              db.dpo.next_maintenance_time - db.dpo.time)]_vars

\* A pass 200 seconds late with pending parameters: the advance is the
\* pending interval of 2400, and the witnesses are asked 1 a block for
\* ceil(2200 / 3) blocks
C25_Witness ==
    /\ pc = "tail"
    /\ undo.gpo.pending_parameters # <<>>
    /\ undo.gpo.parameters.maintenance_interval = 3600
    /\ db.dpo.time = 11000
    /\ db.dpo.next_maintenance_time = undo.dpo.next_maintenance_time + 2400
    /\ LastBudgetRecord(db).requested_witness_budget = 734
(* ------------------------------------------------------------------ *)
(* Properties of the conversion of the annual members                  *)
(* ------------------------------------------------------------------ *)
\* C26: deprecate_annual_members runs in a pass exactly when the stored
\* next_maintenance_time is before HARDFORK_613_TIME and the new one is not;
\* next_maintenance_time never decreasing, it runs at most once; and an
\* account whose upgrade fails does not keep the others from being upgraded.
C26_AnnualMembersDeprecatedOnce ==
    [][/\ (pc = "advance" /\ pc' = "budget")
          => /\ db'.dpo.next_maintenance_time >= db.dpo.next_maintenance_time
             /\ IF db.dpo.next_maintenance_time < HARDFORK_613_TIME
                   /\ db'.dpo.next_maintenance_time >= HARDFORK_613_TIME
                THEN /\ db'.deprecations = Append(db.deprecations, db.dpo.time)
                     /\ db'.annual_members = db.annual_members \cap db.failing_upgrades
                     /\ db'.lifetime_members =
                           db.lifetime_members
                              \cup (db.annual_members \ db.failing_upgrades)
                ELSE /\ db'.deprecations = db.deprecations
                     /\ db'.annual_members = db.annual_members
                     /\ db'.lifetime_members = db.lifetime_members
       /\ Len(db'.deprecations) <= 1]_vars

\* Two passes returned, the first of which made account 2 a lifetime member
\* though the upgrade of account 1 had failed
C26_Witness ==
    /\ pc = "idle" /\ passes = 2
    /\ Len(db.budget_records) = 2
    /\ db.dpo.next_maintenance_time >= HARDFORK_613_TIME
    /\ Len(db.deprecations) = 1
    /\ db.deprecations[1] = db.budget_records[1].time
    /\ db.failing_upgrades = {1}
    /\ db.annual_members = {1}
    /\ db.lifetime_members = {2}
(* ------------------------------------------------------------------ *)
(* Properties of the end of the pass                                   *)
(* ------------------------------------------------------------------ *)
\* The tables clear_old_entities prunes, and the cheques
Reaped(d) ==
    <<d.operation_history, d.account_transaction_history, d.fund_transaction_history,
      d.blind_transfer2, d.cheques, d.account_mature_balance, d.online_info>>

\* C27: a pass runs at most one bonus function, chosen by head_block_time:
\* issue_bonuses after HARDFORK_620_TIME, else issue_bonuses_before_620 after
\* HARDFORK_617_TIME, else issue_bonuses_old after HARDFORK_616_TIME, else
\* none; process_funds runs exactly after HARDFORK_622_TIME; the bonuses
\* come after process_budget and before process_cheques and
\* clear_old_entities.
C27_OneBonusVariant ==
    [][/\ (pc = "tail" /\ pc' = "bonuses")
          => /\ (\E f \in DOMAIN db.funds : db'.funds[f].processed > db.funds[f].processed)
                   <=> db.dpo.time > HARDFORK_622_TIME
             /\ db.dpo.time <= HARDFORK_622_TIME => db'.funds = db.funds
             /\ db'.bonuses = db.bonuses
       /\ (pc = "bonuses" /\ pc' = "cheques")
          => /\ db'.bonuses =
                   IF db.dpo.time > HARDFORK_620_TIME
                   THEN Append(db.bonuses, [time |-> db.dpo.time, variant |-> "issue_bonuses"])
                   ELSE IF db.dpo.time > HARDFORK_617_TIME
                   THEN Append(db.bonuses, [time |-> db.dpo.time,
                                            variant |-> "issue_bonuses_before_620"])
                   ELSE IF db.dpo.time > HARDFORK_616_TIME
                   THEN Append(db.bonuses, [time |-> db.dpo.time,
                                            variant |-> "issue_bonuses_old"])
                   ELSE db.bonuses
             /\ Len(db.budget_records) = Len(undo.budget_records) + 1
             /\ db.budget_records[Len(db.budget_records)].time = db.dpo.time
             /\ Reaped(db) = Reaped(undo)
             /\ db'.funds = db.funds
       /\ (pc \in {"budget", "cheques", "entities"}) => db'.bonuses = db.bonuses]_vars

\* A returned pass between HARDFORK_617_TIME and HARDFORK_620_TIME: only
\* issue_bonuses_before_620 ran, no fund was processed, a cheque was reversed
C27_Witness ==
    /\ pc = "idle" /\ last_exit = "returned"
    /\ db.dpo.time = 190001
    /\ db.bonuses = <<[time |-> 190001, variant |-> "issue_bonuses_before_620"]>>
    /\ db.funds = undo.funds
    /\ Len(db.budget_records) = 1
    /\ Reaped(db) # Reaped(undo)
\* The end of the interval before next_maintenance_time
PreviousIntervalEnd(d) ==
    d.dpo.next_maintenance_time - d.gpo.parameters.maintenance_interval

\* C28: process_funds does not process a fund that is disabled or whose
\* datetime_end is before head_block_time; it calls finish() on every fund
\* whose datetime_end is at or before next_maintenance_time -
\* maintenance_interval; it calls process() exactly once on every other
\* enabled fund.
C28_OverdueFundsFinished ==
    [][(pc = "tail" /\ pc' = "bonuses" /\ db.dpo.time > HARDFORK_622_TIME)
       => \A f \in DOMAIN db.funds :
            LET before == db.funds[f]
                after == db'.funds[f]
            IN /\ (~before.enabled \/ before.datetime_end < db.dpo.time)
                     => after.processed = before.processed
               /\ before.datetime_end <= PreviousIntervalEnd(db)
                     => after.finished = before.finished + 1
               /\ (before.enabled /\ before.datetime_end > PreviousIntervalEnd(db))
                     => after.processed = before.processed + 1]_vars

\* What process_funds does: process() once on every enabled fund that ends
\* at or after head_block_time, and finish() on those of them that end at
\* or before the end of the previous interval
C28_FundsFinishedOnlyWhenProcessed ==
    [][(pc = "tail" /\ pc' = "bonuses" /\ db.dpo.time > HARDFORK_622_TIME)
       => \A f \in DOMAIN db.funds :
            LET before == db.funds[f]
                after == db'.funds[f]
                live == before.enabled /\ before.datetime_end >= db.dpo.time
            IN /\ after.processed = before.processed + (IF live THEN 1 ELSE 0)
               /\ after.finished = before.finished +
                    (IF live /\ before.datetime_end <= PreviousIntervalEnd(db)
                     THEN 1 ELSE 0)]_vars

\* A fund that ended on the block of the maintenance boundary was finished
\* while an enabled fund that ended a second earlier was left alone
C28_Witness ==
    /\ pc = "bonuses" /\ db.dpo.time > HARDFORK_622_TIME
    /\ PreviousIntervalEnd(db) = db.dpo.time
    /\ db.funds[1].finished = 1 /\ db.funds[1].processed = 1
    /\ db.funds[2].enabled /\ db.funds[2].datetime_end < db.dpo.time
    /\ db.funds[2].finished = 0 /\ db.funds[2].processed = 0
    /\ db.funds[4].processed = 1 /\ db.funds[4].finished = 0
\* The cheques of d that are new and expired at the end of the previous interval
Expired(d) ==
    {c \in DOMAIN d.cheques :
        d.cheques[c].status = "new" /\ d.cheques[c].expiration <= PreviousIntervalEnd(d)}

\* The cheque_reverse operations of the expired cheques whose reversal does
\* not fail, in the order of their ids
Reversals(d) ==
    LET due == SelectSeq(d.cheques,
                         LAMBDA q : /\ q.status = "new"
                                    /\ q.expiration <= PreviousIntervalEnd(d)
                                    /\ ~q.reverse_fails)
    IN [i \in 1..Len(due) |->
           [op |-> "cheque_reverse", cheque_id |-> due[i].id,
            account_id |-> due[i].drawer, amount |-> due[i].remaining_amount]]

\* C29: process_cheques applies to every cheque with status new whose
\* expiration is at or before next_maintenance_time - maintenance_interval a
\* cheque_reverse operation for its whole remaining amount to its drawer; a
\* reversal that fails an assertion is swallowed and the cheques after it
\* are still processed; a cheque with another status or a later expiration
\* is untouched.
C29_ExpiredChequesReversed ==
    [][(pc = "cheques" /\ pc' = "entities")
       => /\ db'.applied_operations = db.applied_operations \o Reversals(db)
          /\ \A c \in DOMAIN db.cheques :
                IF c \in Expired(db) /\ ~db.cheques[c].reverse_fails
                THEN /\ db'.cheques[c].status = "undo"
                     /\ db'.cheques[c].remaining_amount = 0
                ELSE db'.cheques[c] = db.cheques[c]
          /\ \A a \in DOMAIN db.balance :
                db'.balance[a] = db.balance[a] +
                    SumSet({c \in Expired(db) : /\ ~db.cheques[c].reverse_fails
                                                /\ db.cheques[c].drawer = a},
                           [c \in DOMAIN db.cheques |-> db.cheques[c].remaining_amount])
          /\ last_exit' = last_exit]_vars

\* The reversal of the first cheque failed, the two expired cheques after
\* it were reversed, the later and the used cheque are as they were
C29_Witness ==
    /\ pc = "entities"
    /\ db.cheques[1].reverse_fails /\ db.cheques[1].status = "new"
    /\ db.cheques[1].expiration < PreviousIntervalEnd(db)
    /\ db.cheques[2].status = "undo" /\ db.cheques[2].expiration = PreviousIntervalEnd(db)
    /\ db.cheques[5].status = "undo"
    /\ db.cheques[3].status = "new" /\ db.cheques[3].remaining_amount = 31
    /\ db.cheques[4].status = "used" /\ db.cheques[4].remaining_amount = 41
    /\ Len(db.applied_operations) >= 2
    /\ db.applied_operations[Len(db.applied_operations)] =
          [op |-> "cheque_reverse", cheque_id |-> 5, account_id |-> 1, amount |-> 51]
    /\ db.applied_operations[Len(db.applied_operations) - 1] =
          [op |-> "cheque_reverse", cheque_id |-> 2, account_id |-> 2, amount |-> 21]
\* The records of a table
Records(table) == {table[i] : i \in DOMAIN table}

\* after holds the records of before dated at or after cutoff and no other
PrunedBefore(before, after, cutoff) ==
    /\ Records(after) = {r \in Records(before) : r.time >= cutoff}
    /\ Len(after) = Cardinality(Records(after))

\* C30: with history_size > 0, clear_old_entities leaves no operation
\* history, fund transaction history, blind transfer or cheque record dated
\* before head_block_time - history_size days and keeps every record dated at
\* or after it; the account transaction history is pruned the same way only
\* when head_block_time > HARDFORK_617_TIME and is otherwise untouched; with
\* history_size = 0 nothing is pruned.
C30_HistoryPrunedBeforeCutoff ==
    [][(pc = "entities" /\ pc' = "idle")
       => LET cutoff == db.dpo.time - db.history_size * SecondsPerDay
          IN IF db.history_size > 0
             THEN /\ PrunedBefore(db.operation_history, db'.operation_history, cutoff)
                  /\ PrunedBefore(db.fund_transaction_history,
                                  db'.fund_transaction_history, cutoff)
                  /\ PrunedBefore(db.blind_transfer2, db'.blind_transfer2, cutoff)
                  /\ PrunedBefore(db.cheques, db'.cheques, cutoff)
                  /\ IF db.dpo.time > HARDFORK_617_TIME
                     THEN PrunedBefore(db.account_transaction_history,
                                       db'.account_transaction_history, cutoff)
                     ELSE db'.account_transaction_history = db.account_transaction_history
             ELSE /\ db'.operation_history = db.operation_history
                  /\ db'.fund_transaction_history = db.fund_transaction_history
                  /\ db'.blind_transfer2 = db.blind_transfer2
                  /\ db'.cheques = db.cheques
                  /\ db'.account_transaction_history = db.account_transaction_history]_vars

\* A pass before HARDFORK_617_TIME with one day of history: the records of
\* the cutoff second and later are kept, the account transaction history is whole
C30_Witness ==
    /\ pc = "idle" /\ last_exit = "returned"
    /\ db.history_size = 1 /\ db.dpo.time = 100000
    /\ db.operation_history = <<[id |-> 4, time |-> 13600], [id |-> 5, time |-> 99990]>>
    /\ Len(db.fund_transaction_history) = 2 /\ Len(db.blind_transfer2) = 2
    /\ Len(db.cheques) = 2 /\ db.cheques[1].id = 4
    /\ Len(db.account_transaction_history) = 5

\* A pass after HARDFORK_617_TIME with two days of history: the account
\* transaction history is pruned with the other tables
C30_WitnessAfter617 ==
    /\ pc = "idle" /\ last_exit = "returned"
    /\ db.history_size = 2 /\ db.dpo.time > HARDFORK_617_TIME
    /\ Len(db.account_transaction_history) = 4
    /\ Len(db.operation_history) = 4
(* ------------------------------------------------------------------ *)
(* Properties of split_fba_balance at its edges                        *)
(* ------------------------------------------------------------------ *)
\* C32: split_fba_balance called with network_pct + buyback_pct +
\* issuer_pct other than GRAPHENE_100_PERCENT raises and leaves the pool,
\* the core supply and the balances as they were; with shares that sum to
\* GRAPHENE_100_PERCENT and an empty pool it returns, changes nothing and
\* pushes no fba_distribute operation.
C32_BadSharesOrEmptyPoolChangeNothing ==
    pc = "split"
    => LET sum == call.shares[1] + call.shares[2] + call.shares[3]
       IN /\ sum # GRAPHENE_100_PERCENT
               => /\ last_exit = "raised"
                  /\ db = undo
          /\ (sum = GRAPHENE_100_PERCENT /\ undo.fba[call.fba_id].accumulated_fba_fees = 0)
               => /\ last_exit = "returned"
                  /\ db = undo
                  /\ db.applied_operations = undo.applied_operations

\* A call with shares of 110% on a pool that holds fees raised
C32_Witness ==
    /\ pc = "split" /\ last_exit = "raised"
    /\ call.shares = <<2000, 6000, 3000>>
    /\ undo.fba[call.fba_id].accumulated_fba_fees = 1000
    /\ undo.fba[call.fba_id].is_configured
    /\ db.fba[call.fba_id].accumulated_fba_fees = 1000

\* A call with shares of 100% on an empty pool returned
C32_WitnessEmptyPool ==
    /\ pc = "split" /\ last_exit = "returned"
    /\ call.shares = <<2000, 6000, 2000>>
    /\ undo.fba[call.fba_id].accumulated_fba_fees = 0
    /\ undo.fba[call.fba_id].is_configured

\* C33: for a pool that is not configured and holds A > 0,
\* split_fba_balance lowers the core asset's current_supply by exactly A,
\* sets the pool to 0, credits no account and pushes no fba_distribute
\* operation.
C33_UnconfiguredPoolBurned ==
    (/\ pc = "split" /\ last_exit = "returned"
     /\ ~undo.fba[call.fba_id].is_configured
     /\ undo.fba[call.fba_id].accumulated_fba_fees > 0)
    => /\ db.core_dd.current_supply =
             undo.core_dd.current_supply - undo.fba[call.fba_id].accumulated_fba_fees
       /\ db.fba[call.fba_id].accumulated_fba_fees = 0
       /\ \A a \in DOMAIN db.balance : Credited(a) = 0
       /\ db.applied_operations = undo.applied_operations
       /\ \A other \in FbaIds \ {call.fba_id} : db.fba[other] = undo.fba[other]

\* An unconfigured pool of 1000 was burned
C33_Witness ==
    /\ pc = "split" /\ last_exit = "returned"
    /\ ~undo.fba[call.fba_id].is_configured
    /\ undo.fba[call.fba_id].accumulated_fba_fees = 1000
    /\ db.core_dd.current_supply = undo.core_dd.current_supply - 1000
    /\ db.fba[call.fba_id].accumulated_fba_fees = 0
    /\ db.balance = undo.balance
(* ------------------------------------------------------------------ *)
(* Properties of the vote totals of workers and committee members      *)
(* ------------------------------------------------------------------ *)
\* C34: after update_worker_votes every worker has total_votes_for equal to
\* the tally of its vote_for id; total_votes_against is the tally of its
\* vote_against id when head_block_time < HARDFORK_607_TIME and 0 for every
\* worker from HARDFORK_607_TIME on.
C34_WorkerVotesOfTally ==
    [][(pc = "workers" /\ pc' = "parameters")
       => \A w \in DOMAIN db'.workers :
             /\ DOMAIN db'.workers = DOMAIN db.workers
             /\ db'.workers[w].total_votes_for =
                   _vote_tally_buffer[db.workers[w].vote_for + 1]
             /\ db'.workers[w].total_votes_against =
                   IF db.dpo.time < HARDFORK_607_TIME
                   THEN _vote_tally_buffer[db.workers[w].vote_against + 1]
                   ELSE 0]_vars

\* A pass from HARDFORK_607_TIME on in which a worker with stake voted
\* against has total_votes_against 0
C34_Witness ==
    /\ pc = "parameters" /\ db.dpo.time >= HARDFORK_607_TIME
    /\ \E w \in DOMAIN db.workers :
          /\ _vote_tally_buffer[db.workers[w].vote_against + 1] > 0
          /\ db.workers[w].total_votes_against = 0
          /\ db.workers[w].total_votes_for > 0

\* A pass before HARDFORK_607_TIME in which the votes against a worker count
C34_WitnessBefore607 ==
    /\ pc = "parameters" /\ db.dpo.time < HARDFORK_607_TIME
    /\ \E w \in DOMAIN db.workers :
          /\ db.workers[w].total_votes_against > 0
          /\ db.workers[w].total_votes_against =
                _vote_tally_buffer[db.workers[w].vote_against + 1]
\* C36: after the elections of a pass every committee member object,
\* elected or not, has total_votes equal to the tally of its vote_id, as
\* every witness object has.
C36_CommitteeVotesOfTally ==
    pc = "workers"
    => /\ \A c \in DOMAIN db.committee :
             db.committee[c].total_votes = _vote_tally_buffer[db.committee[c].vote_id + 1]
       /\ \A w \in DOMAIN db.witnesses :
             db.witnesses[w].total_votes = _vote_tally_buffer[db.witnesses[w].vote_id + 1]

\* What the elections do: every witness and every elected committee member
\* has the tally of its vote_id
C36_ElectedVotesOfTally ==
    pc = "workers"
    => /\ \A c \in db.gpo.active_committee_members :
             db.committee[c].total_votes = _vote_tally_buffer[db.committee[c].vote_id + 1]
       /\ \A w \in DOMAIN db.witnesses :
             db.witnesses[w].total_votes = _vote_tally_buffer[db.witnesses[w].vote_id + 1]

\* A committee member with votes that was not elected kept its former total
C36_Witness ==
    /\ pc = "workers"
    /\ \E c \in DOMAIN db.committee \ db.gpo.active_committee_members :
          /\ _vote_tally_buffer[db.committee[c].vote_id + 1] > 0
          /\ db.committee[c].total_votes = 0
    /\ \E c \in db.gpo.active_committee_members : db.committee[c].total_votes > 0
(* ------------------------------------------------------------------ *)
(* Properties across passes                                            *)
(* ------------------------------------------------------------------ *)
\* C35: in every pass, when process_budget starts, next_maintenance_time -
\* head_block_time is strictly positive, in the pass of block 1 and in the
\* pass of the 0.375 shift as well.
C35_TimeToMaintPositive ==
    pc = "budget" => db.dpo.next_maintenance_time - head_block_time(db) > 0

\* In every pass but that of HARDFORK_616_MAINTENANCE_CHANGE_TIME the time
\* to the next maintenance is positive when process_budget starts
C35_TimeToMaintPositiveButAtChangeTime ==
    (pc = "budget" /\ head_block_time(db) # HARDFORK_616_MAINTENANCE_CHANGE_TIME)
    => db.dpo.next_maintenance_time - head_block_time(db) > 0

\* The pass of the 0.375 shift reached process_budget with a
\* next_maintenance_time that is not after head_block_time
C35_Witness ==
    /\ pc = "budget"
    /\ head_block_time(db) = HARDFORK_616_MAINTENANCE_CHANGE_TIME
    /\ db.dpo.next_maintenance_time <= head_block_time(db)
    /\ db.dpo.head_block_number > 1
(* ------------------------------------------------------------------ *)
(* Properties of create_buyback_orders                                 *)
(* ------------------------------------------------------------------ *)
\* The rows an account had when create_buyback_orders began
HoldingsAtEntry(account) ==
    {i \in DOMAIN undo.account_balance : undo.account_balance[i].owner = account}

\* The entries of the record of the scan for buyback object bbo
VisitsOf(bbo) == SelectSeq(db.buyback_log, LAMBDA v : v.buyback = bbo)

\* The loops of create_buyback_orders, taken one iteration at a time, end
\* in the store the function returns
BuybackLoopsAreCreateBuybackOrders ==
    pc = "bought" => db = create_buyback_orders(undo)

\* The limit_order_create operations pushed for seller and asset
OrdersSubmitted(seller, asset) ==
    {i \in DOMAIN db.applied_operations :
        /\ db.applied_operations[i].op = "limit_order_create"
        /\ db.applied_operations[i].seller = seller
        /\ db.applied_operations[i].asset_to_sell = asset}

\* C31: an evaluator exception raised for one holding of a buyback account
\* is caught and the scan goes on with the next holding of the account and
\* with the remaining buyback objects; holdings of the asset being bought,
\* zero balances and assets outside allowed_assets are skipped without an
\* order being submitted; after an attempt that did not raise, no limit
\* order created by the pass remains in the store.
C31_BuybackAttemptsIsolated ==
    pc = "bought"
    => /\ last_exit = "returned"
       /\ \A bbo \in DOMAIN db.buybacks :
             LET b == db.buybacks[bbo]
             IN \A i \in HoldingsAtEntry(b.buyback_account) :
                   LET row == undo.account_balance[i]
                       events == {VisitsOf(bbo)[k].event :
                                     k \in {j \in DOMAIN VisitsOf(bbo) :
                                               VisitsOf(bbo)[j].asset = row.asset_type}}
                       skipped == \/ row.asset_type = b.asset_to_buy
                                  \/ row.balance = 0
                                  \/ row.asset_type \notin b.allowed_assets
                   IN /\ b.allowed_assets_valid => Cardinality(events) = 1
                      /\ (b.allowed_assets_valid /\ ~skipped)
                            => events \subseteq {"raised", "done"}
                      /\ (~b.allowed_assets_valid \/ skipped)
                            => /\ events \cap {"raised", "done"} = {}
                               /\ OrdersSubmitted(b.buyback_account, row.asset_type) = {}
                      /\ "done" \in events
                            => /\ Cardinality(OrdersSubmitted(b.buyback_account,
                                                              row.asset_type)) = 1
                               /\ \A o \in db.limit_orders :
                                     ~(o.seller = b.buyback_account
                                       /\ o.sell_asset = row.asset_type
                                       /\ o.id >= undo.next_order_id)
       /\ undo.limit_orders \subseteq db.limit_orders

\* An attempt of the first buyback account raised; its next holding and a
\* holding of the second buyback account were still sold and their orders
\* are gone, while the order of the failed cancel remains
C31_Witness ==
    /\ pc = "bought"
    /\ [buyback |-> 1, asset |-> 0, event |-> "raised"] \in
          {db.buyback_log[k] : k \in DOMAIN db.buyback_log}
    /\ [buyback |-> 1, asset |-> 2, event |-> "done"] \in
          {db.buyback_log[k] : k \in DOMAIN db.buyback_log}
    /\ [buyback |-> 1, asset |-> 3, event |-> "own"] \in
          {db.buyback_log[k] : k \in DOMAIN db.buyback_log}
    /\ [buyback |-> 2, asset |-> 1, event |-> "raised"] \in
          {db.buyback_log[k] : k \in DOMAIN db.buyback_log}
    /\ [buyback |-> 2, asset |-> 2, event |-> "done"] \in
          {db.buyback_log[k] : k \in DOMAIN db.buyback_log}
    /\ db.market[2] = "cancel_raises"
    /\ \E o \in db.limit_orders : o.seller = 5 /\ o.sell_asset = 1
    /\ ~\E o \in db.limit_orders : o.sell_asset = 2
\* C39: the scan of the holdings ends for every buyback account and visits
\* each balance row of the account exactly once, in ascending asset id,
\* also when an attempt raises or an order changes the balances of the
\* account: the cursor next_asset grows in every iteration.
C39_HoldingsScanEnds ==
    /\ [][(pc = "holdings" /\ pc' = "holdings")
          => /\ call'.next_asset > call.next_asset
             /\ Len(db'.buyback_log) = Len(db.buyback_log) + 1]_vars
    /\ [](pc = "bought"
          => \A bbo \in DOMAIN db.buybacks :
                LET visits == VisitsOf(bbo)
                    entry == HoldingsAtEntry(db.buybacks[bbo].buyback_account)
                IN IF db.buybacks[bbo].allowed_assets_valid
                   THEN /\ \A i \in entry :
                              Cardinality({k \in DOMAIN visits :
                                  visits[k].asset = undo.account_balance[i].asset_type}) = 1
                        /\ \A k \in DOMAIN visits :
                              /\ k > 1 => visits[k].asset > visits[k - 1].asset
                              /\ \E i \in DOMAIN db.account_balance :
                                    /\ db.account_balance[i].owner =
                                          db.buybacks[bbo].buyback_account
                                    /\ db.account_balance[i].asset_type = visits[k].asset
                   ELSE visits = <<>>)
    /\ <>(pc = "bought")

\* A scan of three holdings ended although its first attempt raised and an
\* order that was filled gave the account a row it did not have
C39_Witness ==
    /\ pc = "bought"
    /\ Len(VisitsOf(1)) = 3
    /\ VisitsOf(1)[1] = [buyback |-> 1, asset |-> 0, event |-> "raised"]
    /\ VisitsOf(1)[2] = [buyback |-> 1, asset |-> 2, event |-> "done"]
    /\ VisitsOf(1)[3] = [buyback |-> 1, asset |-> 3, event |-> "own"]
    /\ Cardinality(HoldingsAtEntry(4)) = 2
(* ------------------------------------------------------------------ *)
(* Properties of cheques and funds over their life                     *)
(* ------------------------------------------------------------------ *)
\* The ids of the cheques in a store
ChequeIds(d) == {d.cheques[c].id : c \in DOMAIN d.cheques}

\* C38: clear_old_entities never removes a cheque that still has status
\* new: every cheque it prunes has been used or reversed, so no remaining
\* amount is dropped without a cheque_reverse.
C38_NoNewChequeReaped ==
    [][(pc = "entities" /\ pc' = "idle")
       => \A c \in DOMAIN db.cheques :
             db.cheques[c].id \notin ChequeIds(db')
                => db.cheques[c].status # "new"]_vars

\* Every cheque that process_cheques reversed in the pass is pruned, if at
\* all, with nothing left on it
C38_ReversedChequesReapedEmpty ==
    [][(pc = "entities" /\ pc' = "idle")
       => \A c \in DOMAIN db.cheques :
             (db.cheques[c].id \notin ChequeIds(db') /\ db.cheques[c].status = "undo")
                => db.cheques[c].remaining_amount = 0]_vars

\* A pass pruned a cheque that was new, not yet expired and held an amount
C38_Witness ==
    /\ pc = "idle" /\ last_exit = "returned"
    /\ db.history_size = 1
    /\ \E c \in DOMAIN undo.cheques :
          /\ undo.cheques[c].status = "new"
          /\ undo.cheques[c].expiration > PreviousIntervalEnd(db)
          /\ undo.cheques[c].remaining_amount > 0
          /\ ~undo.cheques[c].reverse_fails
          /\ undo.cheques[c].id \notin ChequeIds(db)
          /\ \A i \in DOMAIN db.applied_operations :
                db.applied_operations[i].op = "cheque_reverse"
                   => db.applied_operations[i].cheque_id # undo.cheques[c].id
\* A pass after HARDFORK_622_TIME has returned at or after the end of fund f,
\* and f is still enabled
FundEndPassed(f) ==
    /\ pc = "idle" /\ last_exit = "returned"
    /\ head_block_time(db) > HARDFORK_622_TIME
    /\ db.funds[f].enabled
    /\ db.funds[f].datetime_end <= head_block_time(db)

C37_MissedFundsStayAsTheyAre ==
    [][/\ head_block_time(db') >= head_block_time(db)
       /\ \A f \in DOMAIN db.funds :
            (db.funds[f].enabled /\ db.funds[f].datetime_end < head_block_time(db))
               => db'.funds[f] = db.funds[f]]_vars

\* A fund that ends on the block of a maintenance boundary is finished in
\* the pass of that block
C37_FundsOnTheBoundaryBlockFinished ==
    [][(pc = "tail" /\ pc' = "bonuses")
       => \A f \in DOMAIN db.funds :
            (db.funds[f].enabled /\ db.funds[f].datetime_end = head_block_time(db)
               /\ PreviousIntervalEnd(db) = head_block_time(db))
               => db'.funds[f].finished = 1]_vars

====
